---- MODULE Spec2Model ----
(***************************************************************************)
(* A model of the table configuration editor (romyli/table_config_app):    *)
(* the TableConfig class of src/utils/table_config.py (key-list parsing,   *)
(* DataSchema parsing, schema <-> grid conversion), the save handlers of   *)
(* src/pages/1_Edit_Config.py and the warehouse updates of                 *)
(* src/utils/database.py.                                                  *)
(*                                                                         *)
(* Representation.  A Python string is a sequence of characters, each      *)
(* character a one-element TLA+ string; a word of the schema vocabulary    *)
(* ("fields", "metadata", "target_name", "None", ...) is written as one    *)
(* element that stands for its run of letters, so the structural           *)
(* characters of JSON and of the comma lists ( [ ] { } , : " \ and white   *)
(* space) are always elements of their own.  A Python value is a record    *)
(* [kind, val]; a dict is a function from strings to values.               *)
(***************************************************************************)
EXTENDS Integers, Sequences, FiniteSets, TLC

(***************************************************************************)
(* Python values                                                           *)
(***************************************************************************)
PyStr(s) == [kind |-> "str", s |-> s]
PyInt(n) == [kind |-> "int", n |-> n]
PyBool(b) == [kind |-> "bool", b |-> b]
PyNone == [kind |-> "none"]
PyNaN == [kind |-> "nan"]
PyList(items) == [kind |-> "list", items |-> items]
PyDict(f) == [kind |-> "dict", d |-> f]

EmptyStr == <<>>
EmptyDict == [k \in {} |-> PyNone]

\* dict.get(key, default)
DictGet(d, key, default) == IF key \in DOMAIN d.d THEN d.d[key] ELSE default

\* Python truthiness, bool(v) / `if v:` (NaN is a non-zero float: truthy)
Truthy(v) ==
    CASE v.kind = "str" -> v.s # EmptyStr
      [] v.kind = "int" -> v.n # 0
      [] v.kind = "bool" -> v.b
      [] v.kind = "none" -> FALSE
      [] v.kind = "nan" -> TRUE
      [] v.kind = "list" -> Len(v.items) > 0
      [] v.kind = "dict" -> DOMAIN v.d # {}
      [] OTHER -> TRUE

(***************************************************************************)
(* Strings: str(), str.strip(), str.split(","), str.join                   *)
(***************************************************************************)
Whitespace == {" ", "\t", "\n", "\r"}

RECURSIVE Digits(_)
Digits(n) ==
    LET d == <<"0", "1", "2", "3", "4", "5", "6", "7", "8", "9">>[(n % 10) + 1]
    IN  IF n < 10 THEN <<d>> ELSE Digits(n \div 10) \o <<d>>

\* str(value) for the values a warehouse column can hold
Str(v) ==
    CASE v.kind = "str" -> v.s
      [] v.kind = "int" -> IF v.n < 0 THEN <<"-">> \o Digits(-v.n) ELSE Digits(v.n)
      [] v.kind = "bool" -> IF v.b THEN <<"True">> ELSE <<"False">>
      [] v.kind = "none" -> <<"None">>
      [] v.kind = "nan" -> <<"nan">>

RECURSIVE LStrip(_)
LStrip(s) == IF s # <<>> /\ Head(s) \in Whitespace THEN LStrip(Tail(s)) ELSE s

RECURSIVE RStrip(_)
RStrip(s) ==
    IF s # <<>> /\ s[Len(s)] \in Whitespace THEN RStrip(SubSeq(s, 1, Len(s) - 1)) ELSE s

Strip(s) == RStrip(LStrip(s))

\* s.split(sep) for a one-character separator: always at least one piece
RECURSIVE SplitFrom(_, _, _)
SplitFrom(s, sep, cur) ==
    IF s = <<>> THEN <<cur>>
    ELSE IF Head(s) = sep THEN <<cur>> \o SplitFrom(Tail(s), sep, <<>>)
    ELSE SplitFrom(Tail(s), sep, Append(cur, Head(s)))

Split(s, sep) == SplitFrom(s, sep, <<>>)

\* sep.join(parts), parts a sequence of strings
RECURSIVE Join(_, _)
Join(sep, parts) ==
    IF parts = <<>> THEN <<>>
    ELSE IF Len(parts) = 1 THEN parts[1]
    ELSE parts[1] \o sep \o Join(sep, Tail(parts))

\* iterating a str yields its characters: sep.join(s) for a string s
JoinChars(sep, s) == Join(sep, [i \in 1..Len(s) |-> <<s[i]>>])

(***************************************************************************)
(* json.dumps / json.loads (CPython json, default options)                 *)
(***************************************************************************)
Backspace == "BS"
ControlChars == {"\t", "\n", "\r", "\f", Backspace}
DigitChars == {"0", "1", "2", "3", "4", "5", "6", "7", "8", "9"}

\* encoder: the two-character escape of a character, or the character itself
EscapeChar(c) ==
    CASE c = "\"" -> <<"\\", "\"">>
      [] c = "\\" -> <<"\\", "\\">>
      [] c = "\n" -> <<"\\", "n">>
      [] c = "\r" -> <<"\\", "r">>
      [] c = "\t" -> <<"\\", "t">>
      [] c = "\f" -> <<"\\", "f">>
      [] c = Backspace -> <<"\\", "b">>
      [] OTHER -> <<c>>

RECURSIVE EscapeStr(_)
EscapeStr(s) == IF s = <<>> THEN <<>> ELSE EscapeChar(Head(s)) \o EscapeStr(Tail(s))

QuoteStr(s) == <<"\"">> \o EscapeStr(s) \o <<"\"">>

\* the keys of a dict in one fixed order
RECURSIVE KeySeq(_)
KeySeq(S) == IF S = {} THEN <<>> ELSE LET k == CHOOSE x \in S : TRUE IN <<k>> \o KeySeq(S \ {k})

RECURSIVE json_dumps(_)
json_dumps(v) ==
    CASE v.kind = "str" -> QuoteStr(v.s)
      [] v.kind = "int" -> Str(v)
      [] v.kind = "bool" -> IF v.b THEN <<"true">> ELSE <<"false">>
      [] v.kind = "none" -> <<"null">>
      [] v.kind = "nan" -> <<"NaN">>
      [] v.kind = "list" ->
            <<"[">> \o Join(<<",", " ">>, [i \in 1..Len(v.items) |-> json_dumps(v.items[i])]) \o <<"]">>
      [] v.kind = "dict" ->
            LET ks == KeySeq(DOMAIN v.d)
            IN  <<"{">>
                \o Join(<<",", " ">>,
                        [i \in 1..Len(ks) |->
                            QuoteStr(ks[i]) \o <<":", " ">> \o json_dumps(v.d[ks[i]])])
                \o <<"}">>

\* decoder: the character an escape \c stands for ("" when \c is no escape)
Unescape(c) ==
    CASE c = "\"" -> "\""
      [] c = "\\" -> "\\"
      [] c = "/" -> "/"
      [] c = "n" -> "\n"
      [] c = "r" -> "\r"
      [] c = "t" -> "\t"
      [] c = "f" -> "\f"
      [] c = "b" -> Backspace
      [] OTHER -> ""

ParseFail == [ok |-> FALSE, val |-> PyNone, pos |-> 0]
ParseOk(v, p) == [ok |-> TRUE, val |-> v, pos |-> p]

\* the character at position i, "" past the end
At(s, i) == IF i >= 1 /\ i <= Len(s) THEN s[i] ELSE ""

RECURSIVE SkipWs(_, _)
SkipWs(s, i) == IF At(s, i) \in Whitespace THEN SkipWs(s, i + 1) ELSE i

DictSet(f, k, v) == [x \in (DOMAIN f) \cup {k} |-> IF x = k THEN v ELSE f[x]]

\* py_scanstring, strict: i is the position after the opening quote
RECURSIVE ScanString(_, _, _)
ScanString(s, i, acc) ==
    LET c == At(s, i)
    IN  IF c = "" THEN ParseFail
        ELSE IF c = "\"" THEN ParseOk(PyStr(acc), i + 1)
        ELSE IF c = "\\"
             THEN IF Unescape(At(s, i + 1)) # ""
                  THEN ScanString(s, i + 2, Append(acc, Unescape(At(s, i + 1))))
                  ELSE ParseFail
        ELSE IF c \in ControlChars THEN ParseFail
        ELSE ScanString(s, i + 1, Append(acc, c))

DigitValue(c) ==
    CASE c = "0" -> 0 [] c = "1" -> 1 [] c = "2" -> 2 [] c = "3" -> 3 [] c = "4" -> 4
      [] c = "5" -> 5 [] c = "6" -> 6 [] c = "7" -> 7 [] c = "8" -> 8 [] c = "9" -> 9

RECURSIVE ScanDigits(_, _, _)
ScanDigits(s, i, n) ==
    IF At(s, i) \in DigitChars THEN ScanDigits(s, i + 1, 10 * n + DigitValue(s[i]))
    ELSE ParseOk(PyInt(n), i)

\* NUMBER_RE, integer part: -?(0|[1-9][0-9]*)
ScanNumber(s, i) ==
    LET neg == At(s, i) = "-"
        j == IF neg THEN i + 1 ELSE i
        r == IF At(s, j) = "0" THEN ParseOk(PyInt(0), j + 1)
             ELSE IF At(s, j) \in DigitChars THEN ScanDigits(s, j, 0)
             ELSE ParseFail
    IN  IF r.ok /\ neg THEN ParseOk(PyInt(0 - r.val.n), r.pos) ELSE r

RECURSIVE ParseValue(_, _), ParseArrayItems(_, _, _), ParseObjectItems(_, _, _)

\* JSONArray: i is the position after "["
ParseArray(s, i) ==
    LET j == SkipWs(s, i)
    IN  IF At(s, j) = "]" THEN ParseOk(PyList(<<>>), j + 1) ELSE ParseArrayItems(s, j, <<>>)

\* JSONObject: i is the position after "{"
ParseObject(s, i) ==
    LET j == SkipWs(s, i)
    IN  IF At(s, j) = "}" THEN ParseOk(PyDict(EmptyDict), j + 1)
        ELSE IF At(s, j) = "\"" THEN ParseObjectItems(s, j + 1, EmptyDict)
        ELSE ParseFail

\* scan_once
ParseValue(s, i) ==
    LET c == At(s, i)
    IN  CASE c = "\"" -> ScanString(s, i + 1, <<>>)
          [] c = "{" -> ParseObject(s, i + 1)
          [] c = "[" -> ParseArray(s, i + 1)
          [] c = "null" -> ParseOk(PyNone, i + 1)
          [] c = "true" -> ParseOk(PyBool(TRUE), i + 1)
          [] c = "false" -> ParseOk(PyBool(FALSE), i + 1)
          [] c = "NaN" -> ParseOk(PyNaN, i + 1)
          [] c \in DigitChars \cup {"-"} -> ScanNumber(s, i)
          [] OTHER -> ParseFail

ParseArrayItems(s, i, acc) ==
    LET r == ParseValue(s, i)
        j == SkipWs(s, r.pos)
        acc2 == Append(acc, r.val)
    IN  IF ~r.ok THEN ParseFail
        ELSE IF At(s, j) = "]" THEN ParseOk(PyList(acc2), j + 1)
        ELSE IF At(s, j) = "," THEN ParseArrayItems(s, SkipWs(s, j + 1), acc2)
        ELSE ParseFail

\* i is the position after the opening quote of a key
ParseObjectItems(s, i, acc) ==
    LET k == ScanString(s, i, <<>>)
        j == SkipWs(s, k.pos)
        r == ParseValue(s, SkipWs(s, j + 1))
        acc2 == DictSet(acc, k.val.s, r.val)
        m == SkipWs(s, r.pos)
        q == SkipWs(s, m + 1)
    IN  IF ~k.ok THEN ParseFail
        ELSE IF At(s, j) # ":" THEN ParseFail
        ELSE IF ~r.ok THEN ParseFail
        ELSE IF At(s, m) = "}" THEN ParseOk(PyDict(acc2), m + 1)
        ELSE IF At(s, m) = "," /\ At(s, q) = "\"" THEN ParseObjectItems(s, q + 1, acc2)
        ELSE ParseFail

\* json.loads(s): ok = FALSE stands for json.JSONDecodeError
json_loads(s) ==
    LET r == ParseValue(s, SkipWs(s, 1))
    IN  IF r.ok /\ SkipWs(s, r.pos) = Len(s) + 1 THEN r ELSE ParseFail

(***************************************************************************)
(* TableConfig.parse_key_list                                              *)
(***************************************************************************)
Return(v) == [raised |-> FALSE, exc |-> "", val |-> v]
Raise(e) == [raised |-> TRUE, exc |-> e, val |-> <<>>]

\* drop the empty strings of a sequence of strings
RECURSIVE FilterNonEmpty(_)
FilterNonEmpty(ss) ==
    IF ss = <<>> THEN <<>>
    ELSE IF Head(ss) # EmptyStr THEN <<Head(ss)>> \o FilterNonEmpty(Tail(ss))
    ELSE FilterNonEmpty(Tail(ss))

\* [k.strip() for k in parsed if k.strip()]: k.strip() of an element that is
\* no str raises AttributeError
StripComprehension(parsed) ==
    IF \E i \in 1..Len(parsed) : parsed[i].kind # "str" THEN Raise("AttributeError")
    ELSE Return(FilterNonEmpty([i \in 1..Len(parsed) |-> Strip(parsed[i].s)]))

\* str(value).split(","), as the list of str it is
SplitCommas(value) ==
    LET parts == Split(Str(value), ",") IN [i \in 1..Len(parts) |-> PyStr(parts[i])]

\* the try block, lines 62-66
TrySplitOnly(value) == StripComprehension(SplitCommas(value))
TryParseKeyList(value) ==
    IF value.kind = "str" /\ At(value.s, 1) = "["
    THEN LET r == json_loads(value.s)
         IN  IF r.ok THEN StripComprehension(r.val.items) ELSE Raise("JSONDecodeError")
    ELSE StripComprehension(SplitCommas(value))

\* the bare `except:` of line 67 catches every exception
ExceptJSONDecodeErrorOnly(exc) == exc = "JSONDecodeError"
ExceptCatches(exc) == TRUE

\* the except block, line 68
FallbackSplit(value) == StripComprehension(SplitCommas(value))

parse_key_list(config, key_name) ==
    IF ~Truthy(config) THEN Return(<<>>)
    ELSE LET value == DictGet(config, key_name, PyStr(EmptyStr))
             t == TryParseKeyList(value)
         IN  IF t.raised /\ ExceptCatches(t.exc) THEN FallbackSplit(value) ELSE t

(***************************************************************************)
(* Schema fields and the grid (pandas DataFrame)                           *)
(***************************************************************************)
K_name == <<"name">>
K_type == <<"type">>
K_nullable == <<"nullable">>
K_metadata == <<"metadata">>
K_fields == <<"fields">>
K_source_name == <<"source_name">>
K_target_name == <<"target_name">>
K_comment == <<"comment">>
K_is_primary_key == <<"is_primary_key">>

\* line 159: the metadata keys that have a dedicated grid column
ReservedKeys == {K_comment, K_source_name, K_target_name, K_is_primary_key}

ColSource == <<"Source Name">>
ColTarget == <<"Target Name">>
ColType == <<"Data Type">>
ColNullable == <<"Nullable">>
ColPK == <<"Is Primary Key">>
ColJoin == <<"Is SCD Join Key">>
ColSeq == <<"Is SCD Sequence Key">>
ColComment == <<"Comment">>
ColFieldName == <<"Field Name">>

MetaPrefix == "metadata."
\* f"metadata.{key}"
MetaCol(key) == <<MetaPrefix>> \o key
\* col.startswith("metadata.")
IsMetaCol(col) == At(col, 1) = MetaPrefix
\* col.replace("metadata.", ""): every occurrence is removed
RECURSIVE RemoveMetaPrefix(_)
RemoveMetaPrefix(col) ==
    IF col = <<>> THEN <<>>
    ELSE IF Head(col) = MetaPrefix THEN RemoveMetaPrefix(Tail(col))
    ELSE <<Head(col)>> \o RemoveMetaPrefix(Tail(col))

\* lines 115-117 and 324-326: the columns of the empty grid
EmptyGridColumns ==
    <<ColSource, ColTarget, ColType, ColNullable, ColPK, ColJoin, ColSeq, ColComment>>

\* lines 137-155: the order in which a row dict receives its base columns
RowBaseColumns ==
    <<ColType, ColNullable, ColComment, ColSource, ColTarget, ColPK, ColJoin, ColSeq>>

SeqRange(s) == {s[i] : i \in 1..Len(s)}

\* code point of the first letter of a character or word of a metadata key
Ord(c) ==
    CASE c = MetaPrefix -> 109
      [] c = "k" -> 107
      [] c = "x" -> 120
      [] c = "y" -> 121
      [] c = "z" -> 122
      [] OTHER -> 200

\* a < b for Python str
RECURSIVE StrLess(_, _)
StrLess(a, b) ==
    IF b = <<>> THEN FALSE
    ELSE IF a = <<>> THEN TRUE
    ELSE IF Head(a) = Head(b) THEN StrLess(Tail(a), Tail(b))
    ELSE Ord(Head(a)) < Ord(Head(b))

\* sorted(S) for a set of str
RECURSIVE Sorted(_)
Sorted(S) ==
    IF S = {} THEN <<>>
    ELSE LET m == CHOOSE x \in S : \A y \in S \ {x} : StrLess(x, y)
         IN  <<m>> \o Sorted(S \ {m})

\* pd.notna(cell) for a scalar cell
NotNa(v) == v.kind \notin {"none", "nan"}

IsNumber(v) == v.kind = "int"

\* pd.DataFrame(rows): a column whose cells are all numbers or None, with
\* at least one of each, becomes float64 and its None cells NaN; every
\* other column keeps its objects
DataFrame(columns, rows) ==
    LET numeric(c) ==
            /\ \A i \in 1..Len(rows) : IsNumber(rows[i][c]) \/ rows[i][c] = PyNone
            /\ \E i \in 1..Len(rows) : IsNumber(rows[i][c])
    IN  [columns |-> IF rows = <<>> THEN <<>> ELSE columns,
         rows |-> [i \in 1..Len(rows) |->
                     [c \in DOMAIN rows[i] |->
                         IF rows[i][c] = PyNone /\ numeric(c) THEN PyNaN ELSE rows[i][c]]]]

\* `x in set(keys)` for a list of str keys
InKeySet(x, keys) == x.kind = "str" /\ x.s \in SeqRange(keys)

IsDict(v) == v.kind = "dict"

\* lines 142-144
MetadataOf(field) ==
    LET metadata == DictGet(field, K_metadata, PyDict(EmptyDict))
    IN  IF IsDict(metadata) THEN metadata ELSE PyDict(EmptyDict)

\* lines 128-132: the union of the metadata keys of all fields
AllMetadataKeys(fields) ==
    UNION { IF IsDict(fields[i]) /\ IsDict(DictGet(fields[i], K_metadata, PyDict(EmptyDict)))
            THEN DOMAIN DictGet(fields[i], K_metadata, PyDict(EmptyDict)).d
            ELSE {} : i \in 1..Len(fields) }

\* lines 137-163 with Is Primary Key read from the primary_keys argument
FieldRowPkFromList(field, primary_keys, scd_join_keys, scd_sequence_keys, metadata_columns) ==
    LET metadata == MetadataOf(field)
        target_name == DictGet(metadata, K_target_name, PyStr(EmptyStr))
    IN  [c \in SeqRange(RowBaseColumns) \cup SeqRange(metadata_columns) |->
            CASE c = ColType -> DictGet(field, K_type, PyStr(EmptyStr))
              [] c = ColNullable -> DictGet(field, K_nullable, PyBool(TRUE))
              [] c = ColComment -> DictGet(metadata, K_comment, PyStr(EmptyStr))
              [] c = ColSource -> DictGet(metadata, K_source_name, PyStr(EmptyStr))
              [] c = ColTarget -> target_name
              [] c = ColPK -> PyBool(InKeySet(target_name, primary_keys))
              [] c = ColJoin -> PyBool(InKeySet(target_name, scd_join_keys))
              [] c = ColSeq -> PyBool(InKeySet(target_name, scd_sequence_keys))
              [] OTHER -> DictGet(metadata, Tail(c), PyStr(EmptyStr))]

\* lines 137-163: the row of one field
FieldRow(field, scd_join_keys, scd_sequence_keys, metadata_columns) ==
    LET metadata == MetadataOf(field)
        target_name == DictGet(metadata, K_target_name, PyStr(EmptyStr))
    IN  [c \in SeqRange(RowBaseColumns) \cup SeqRange(metadata_columns) |->
            CASE c = ColType -> DictGet(field, K_type, PyStr(EmptyStr))
              [] c = ColNullable -> DictGet(field, K_nullable, PyBool(TRUE))
              [] c = ColComment -> DictGet(metadata, K_comment, PyStr(EmptyStr))
              [] c = ColSource -> DictGet(metadata, K_source_name, PyStr(EmptyStr))
              [] c = ColTarget -> target_name
              [] c = ColPK -> DictGet(metadata, K_is_primary_key, PyStr(EmptyStr))
              [] c = ColJoin -> PyBool(InKeySet(target_name, scd_join_keys))
              [] c = ColSeq -> PyBool(InKeySet(target_name, scd_sequence_keys))
              [] OTHER -> DictGet(metadata, Tail(c), PyStr(EmptyStr))]

RECURSIVE SelectDicts(_)
SelectDicts(fields) ==
    IF fields = <<>> THEN <<>>
    ELSE IF IsDict(Head(fields)) THEN <<Head(fields)>> \o SelectDicts(Tail(fields))
    ELSE SelectDicts(Tail(fields))

\* schema_to_dataframe with the rows of FieldRowPkFromList
schema_to_dataframe_pk_from_list(schema_fields, primary_keys, scd_join_keys, scd_sequence_keys) ==
    IF schema_fields = <<>> THEN [columns |-> EmptyGridColumns, rows |-> <<>>]
    ELSE LET keys == Sorted(AllMetadataKeys(schema_fields) \ ReservedKeys)
             metadata_columns == [i \in 1..Len(keys) |-> MetaCol(keys[i])]
             dicts == SelectDicts(schema_fields)
         IN  DataFrame(RowBaseColumns \o metadata_columns,
                       [i \in 1..Len(dicts) |->
                           FieldRowPkFromList(dicts[i], primary_keys, scd_join_keys,
                                              scd_sequence_keys, metadata_columns)])

\* TableConfig.schema_to_dataframe; schema_fields is a sequence of values,
\* the key lists are sequences of str
schema_to_dataframe(schema_fields, primary_keys, scd_join_keys, scd_sequence_keys) ==
    IF schema_fields = <<>> THEN [columns |-> EmptyGridColumns, rows |-> <<>>]
    ELSE LET keys == Sorted(AllMetadataKeys(schema_fields) \ ReservedKeys)
             metadata_columns == [i \in 1..Len(keys) |-> MetaCol(keys[i])]
             dicts == SelectDicts(schema_fields)
         IN  DataFrame(RowBaseColumns \o metadata_columns,
                       [i \in 1..Len(dicts) |->
                           FieldRow(dicts[i], scd_join_keys, scd_sequence_keys,
                                    metadata_columns)])


\* lines 185-192: the lookup of the original fields by target_name (by name
\* for a field without target_name); a later field replaces an earlier one
RECURSIVE OriginalFieldsMap(_, _)
OriginalFieldsMap(fields, map) ==
    IF fields = <<>> THEN map
    ELSE LET field == Head(fields)
             metadata == DictGet(field, K_metadata, PyDict(EmptyDict))
             target_name ==
                 DictGet(metadata, K_target_name, DictGet(field, K_name, PyStr(EmptyStr)))
         IN  IF IsDict(field) /\ IsDict(metadata)
             THEN OriginalFieldsMap(Tail(fields), DictSet(map, target_name, field))
             ELSE OriginalFieldsMap(Tail(fields), map)

\* json.loads(json.dumps(field)), line 204
DeepCopy(v) == json_loads(json_dumps(v)).val

\* str.lower() on the words a Nullable cell may hold
LowerChar(c) ==
    CASE c \in {"TRUE", "True"} -> "true"
      [] c \in {"FALSE", "False"} -> "false"
      [] OTHER -> c

Lower(s) == [i \in 1..Len(s) |-> LowerChar(s[i])]

\* a native boolean as it is, anything else compared with "true"
NullableOfStringCompare(cell) ==
    IF cell.kind = "bool" THEN cell.b
    ELSE cell.kind = "str" /\ Lower(cell.s) = <<"true">>

\* line 216
NullableOf(cell) ==
    IF cell.kind = "str" THEN Lower(cell.s) = <<"true">> ELSE Truthy(cell)

DictDel(f, k) == [x \in (DOMAIN f) \ {k} |-> f[x]]

\* `"X" in row and pd.notna(row["X"]) and row["X"]`
CellSet(row, col) == col \in DOMAIN row /\ NotNa(row[col]) /\ Truthy(row[col])

\* `if cond: metadata[key] = value`
SetIf(cond, metadata, key, value) == IF cond THEN DictSet(metadata, key, value) ELSE metadata

\* lines 229-234 without the `elif`: a cleared comment is left in place
CommentKeepStale(row, metadata) ==
    SetIf(CellSet(row, ColComment), metadata, K_comment, row[ColComment])
\* lines 229-234
CommentUpdate(row, metadata) ==
    IF CellSet(row, ColComment) THEN DictSet(metadata, K_comment, row[ColComment])
    ELSE IF ColComment \in DOMAIN row THEN DictDel(metadata, K_comment)
    ELSE metadata

\* lines 240-246, over df.columns in order
RECURSIVE MetadataColumnsUpdate(_, _, _)
MetadataColumnsUpdate(columns, row, metadata) ==
    IF columns = <<>> THEN metadata
    ELSE MetadataColumnsUpdate(
             Tail(columns), row,
             SetIf(/\ IsMetaCol(Head(columns))
                   /\ NotNa(row[Head(columns)])
                   /\ \/ row[Head(columns)].kind \in {"bool", "int"}
                      \/ row[Head(columns)] # PyStr(EmptyStr),
                   metadata, RemoveMetaPrefix(Head(columns)), row[Head(columns)]))

\* lines 207-212: a field made from scratch
NewField(row) ==
    PyDict([k \in {K_name, K_type, K_nullable, K_metadata} |->
              CASE k = K_name -> row[ColTarget]
                [] k = K_type -> row[ColType]
                [] k = K_nullable -> PyBool(TRUE)
                [] OTHER -> PyDict(EmptyDict)])

\* lines 203-212 with a lookup that never finds the original field
StartFieldAlwaysNew(row, map) == NewField(row)
\* lines 203-212: the field a row starts from
StartField(row, map) ==
    IF row[ColTarget] \in DOMAIN map THEN DeepCopy(map[row[ColTarget]]) ELSE NewField(row)

\* lines 215-216
TypeAndNullable(row, field) ==
    DictSet(DictSet(field.d, K_type, row[ColType]),
            K_nullable, PyBool(NullableOf(row[ColNullable])))

\* lines 219-220: field["metadata"], an empty dict when the field has none
MetadataDict(f) == IF K_metadata \in DOMAIN f THEN f[K_metadata].d ELSE EmptyDict

\* lines 223-227
SourceAndTarget(row, metadata) ==
    SetIf(CellSet(row, ColTarget),
          SetIf(CellSet(row, ColSource), metadata, K_source_name, row[ColSource]),
          K_target_name, row[ColTarget])

\* lines 236-237
PrimaryKeyFlagWhenTicked(row, metadata) ==
    SetIf(ColPK \in DOMAIN row /\ NotNa(row[ColPK]) /\ Truthy(row[ColPK]),
          metadata, K_is_primary_key, PyBool(TRUE))

PrimaryKeyFlag(row, metadata) ==
    SetIf(ColPK \in DOMAIN row /\ NotNa(row[ColPK]),
          metadata, K_is_primary_key, PyBool(Truthy(row[ColPK])))

\* lines 223-246: the metadata of the output field
RowMetadata(columns, row, metadata) ==
    MetadataColumnsUpdate(columns, row,
        PrimaryKeyFlag(row, CommentUpdate(row, SourceAndTarget(row, metadata))))

\* lines 219-246 on the field f (the function of a dict)
WithRowMetadata(columns, row, f) ==
    PyDict(DictSet(f, K_metadata, PyDict(RowMetadata(columns, row, MetadataDict(f)))))

\* lines 200-248: the field of one row (the row has the columns read
\* without a test: Target Name, Data Type, Nullable)
RowField(columns, row, map) ==
    WithRowMetadata(columns, row, TypeAndNullable(row, StartField(row, map)))

\* lines 251-256: the Target Names of the rows whose `col` cell is truthy,
\* without the rows whose name is already in the list
RECURSIVE TickedNamesDeduplicated(_, _)
TickedNamesDeduplicated(rows, col) ==
    IF rows = <<>> THEN <<>>
    ELSE LET rest == TickedNamesDeduplicated(SubSeq(rows, 1, Len(rows) - 1), col)
             row == rows[Len(rows)]
         IN  IF col \in DOMAIN row /\ Truthy(row[col]) /\ row[ColTarget] \notin SeqRange(rest)
             THEN Append(rest, row[ColTarget])
             ELSE rest
\* lines 251-256: field_name is appended for each row whose `col` cell is truthy
RECURSIVE TickedNames(_, _)
TickedNames(rows, col) ==
    IF rows = <<>> THEN <<>>
    ELSE LET rest == TickedNames(SubSeq(rows, 1, Len(rows) - 1), col)
             row == rows[Len(rows)]
         IN  IF col \in DOMAIN row /\ Truthy(row[col]) THEN Append(rest, row[ColTarget])
             ELSE rest

\* row["Target Name"], row["Data Type"], row["Nullable"] of a grid without
\* that column raise KeyError
RequiredColumns == {ColTarget, ColType, ColNullable}

\* TableConfig.dataframe_to_schema; original_schema_fields is a sequence of
\* values (empty for None)
dataframe_to_schema(df, original_schema_fields) ==
    LET map == OriginalFieldsMap(original_schema_fields, EmptyDict)
        fields == [i \in 1..Len(df.rows) |-> RowField(df.columns, df.rows[i], map)]
    IN  IF df.rows # <<>> /\ ~(RequiredColumns \subseteq SeqRange(df.columns))
        THEN [raised |-> TRUE, exc |-> "KeyError", schema |-> PyNone,
              primary_keys |-> <<>>, scd_join_keys |-> <<>>, scd_sequence_keys |-> <<>>]
        ELSE [raised |-> FALSE, exc |-> "",
              schema |-> PyDict([k \in {K_fields} |-> PyList(fields)]),
              primary_keys |-> json_dumps(PyList(TickedNames(df.rows, ColPK))),
              scd_join_keys |-> json_dumps(PyList(TickedNames(df.rows, ColJoin))),
              scd_sequence_keys |-> json_dumps(PyList(TickedNames(df.rows, ColSeq)))]

\* lines 185-192 by position: the place in original_schema_fields of the
\* field that the lookup holds under a name (the last one with it), 0 when
\* the lookup has no such name
OriginalPosition(fields, name) ==
    LET hits == {n \in 1..Len(fields) :
                   /\ IsDict(fields[n])
                   /\ IsDict(DictGet(fields[n], K_metadata, PyDict(EmptyDict)))
                   /\ DictGet(DictGet(fields[n], K_metadata, PyDict(EmptyDict)), K_target_name,
                              DictGet(fields[n], K_name, PyStr(EmptyStr))) = name}
    IN  IF hits = {} THEN 0 ELSE CHOOSE n \in hits : \A m \in hits : m <= n

\* `field = original_fields_map[field_name]`: the original object itself
SameObject(n) == n

\* line 204, json.loads(json.dumps(original)): json.loads builds new
\* objects, the result is none of the original fields (0)
DeepCopyObject(n) == 0

\* lines 203-212: the object that `field` names for a row, as a place in
\* original_schema_fields; 0 for an object made in this call
FieldObject(fields, row) ==
    IF OriginalPosition(fields, row[ColTarget]) # 0
    THEN DeepCopyObject(OriginalPosition(fields, row[ColTarget]))
    ELSE 0

\* lines 199-248: original_schema_fields after the rows were processed; the
\* assignments of lines 215-246 change the object that `field` names
RECURSIVE OriginalsAfterRows(_, _, _)
OriginalsAfterRows(columns, rows, fields) ==
    IF rows = <<>> THEN fields
    ELSE OriginalsAfterRows(
             columns, Tail(rows),
             IF FieldObject(fields, Head(rows)) = 0 THEN fields
             ELSE [fields EXCEPT ![FieldObject(fields, Head(rows))] =
                      RowField(columns, Head(rows), OriginalFieldsMap(fields, EmptyDict))])

\* the list passed as original_schema_fields once dataframe_to_schema has
\* returned or raised
original_schema_fields_after(df, original_schema_fields) ==
    IF df.rows # <<>> /\ ~(RequiredColumns \subseteq SeqRange(df.columns))
    THEN original_schema_fields
    ELSE OriginalsAfterRows(df.columns, df.rows, original_schema_fields)


(***************************************************************************)
(* State                                                                   *)
(***************************************************************************)
VARIABLES
    klInput,    \* how the stored key column under test was produced
    klConfig,   \* TableConfig._config seen by parse_key_list (a dict or None)
    klPc,       \* "stored" before the call of parse_key_list, "done" after
    klResult    \* what parse_key_list returned or raised

keysVars == <<klInput, klConfig, klPc, klResult>>

VARIABLES
    gFields,    \* the original schema fields F handed to both conversions
    gKeys,      \* the key lists handed to schema_to_dataframe
    gGrid,      \* the grid: built by schema_to_dataframe, then edited
    gEdits,     \* the number of changes made to the grid
    gView,      \* "full": every column; "base": the eight columns the page edits
    gPc,        \* "init", "grid" (the grid is built), "done" (converted back)
    gOut        \* what dataframe_to_schema returned or raised

gridVars == <<gFields, gKeys, gGrid, gEdits, gView, gPc, gOut>>

VARIABLES
    dbRow,      \* the row of the configuration table, as fetch_table_config returns it
    tc,         \* the TableConfig object of the current run of the edit page
    pView,      \* what the edit page shows; "run": the script is about to run
    pGrid,      \* edited_schema_df, the grid of st.data_editor
    pEdits,     \* the number of changes made in the editor
    pSaves,     \* the number of clicks on Save Schema Changes
    pSaved,     \* the grid of the last save and what the two updates returned
    pMsg,       \* the message the last save handler showed, "none" after a rerun
    dbCalls,    \* the number of calls of update_DataSchema and update_table_config
    pFirstLoad  \* what the first load of the row parsed

appVars == <<dbRow, tc, pView, pGrid, pEdits, pSaves, pSaved, pMsg, dbCalls, pFirstLoad>>

VARIABLES
    sRow,       \* the row of the configuration table that two edit sessions share
    sess,       \* per session: its position, TableConfig, grid and what its save did
    sLast       \* which session's UPDATE of each column group ran last

sessVars == <<sRow, sess, sLast>>

VARIABLES
    current_page,   \* st.session_state.current_page of the table list page
    last_filters,   \* st.session_state.last_filters, "unset" while the key is missing
    filter_inputs,  \* the values of the three filter widgets, as current_filters joins them
    shown,          \* what the last run of app.py rendered
    listPc          \* "start", "ready" (rendered, waiting for the user), "rerun" (st.rerun() was called)

listVars == <<current_page, last_filters, filter_inputs, shown, listPc>>

VARIABLES
    rc,     \* the attributes of one TableConfig object that its holder keeps
    rcExc   \* the exception of the last TableConfig(...) or refresh() call, "" for none

refreshVars == <<rc, rcExc>>
vars == <<keysVars, gridVars, appVars, sessVars, listVars, refreshVars>>

(***************************************************************************)
(* Bounds and input sets of the grid specification                         *)
(***************************************************************************)
MaxFields == 2
MaxEdits == 1

Word(c) == PyStr(<<c>>)

\* the dict with the given (key, value) pairs
MkDict(pairs) ==
    PyDict([k \in {p[1] : p \in pairs} |-> (CHOOSE p \in pairs : p[1] = k)[2]])

\* a field with every reserved key, and a metadata key x shown as a column
FieldA ==
    MkDict({<<K_name, Word("a")>>, <<K_type, Word("string")>>, <<K_nullable, PyBool(TRUE)>>,
            <<K_metadata, MkDict({<<K_source_name, Word("sa")>>, <<K_target_name, Word("t")>>,
                                  <<K_comment, Word("c")>>, <<K_is_primary_key, PyBool(TRUE)>>,
                                  <<<<"x">>, Word("v")>>})>>})
\* no comment, no is_primary_key, a falsy number under y
FieldB ==
    MkDict({<<K_name, Word("b")>>, <<K_type, Word("integer")>>, <<K_nullable, PyBool(FALSE)>>,
            <<K_metadata, MkDict({<<K_target_name, Word("u")>>, <<<<"y">>, PyInt(0)>>})>>})
\* no target_name (its identity is its name), no type, an empty string under x
FieldC ==
    MkDict({<<K_name, Word("c")>>,
            <<K_metadata, MkDict({<<K_comment, Word("c")>>, <<<<"x">>, PyStr(EmptyStr)>>})>>})
\* the target_name of FieldA again, a null under y
FieldD ==
    MkDict({<<K_name, Word("d")>>, <<K_type, Word("string")>>, <<K_nullable, PyBool(TRUE)>>,
            <<K_metadata, MkDict({<<K_target_name, Word("t")>>, <<K_comment, Word("c2")>>,
                                  <<<<"y">>, PyNone>>})>>})
\* an element of `fields` that is no dict
FieldJunk == Word("junk")

FieldTemplates == {FieldA, FieldB, FieldC, FieldD, FieldJunk}

\* the field sequences F: up to MaxFields different fields, in any order
FieldSeqs ==
    UNION { {f \in [1..n -> FieldTemplates] : \A i, j \in 1..n : i # j => f[i] # f[j]}
            : n \in 1..MaxFields }

\* (primary_keys, scd_join_keys, scd_sequence_keys)
KeyArgs ==
    { [pk |-> <<>>, jk |-> <<>>, sk |-> <<>>],
      [pk |-> << <<"u">> >>, jk |-> << <<"t">> >>, sk |-> << <<"t">>, <<"u">> >>] }

\* the cell values an operator can put into a column of the grid
EditValues(col) ==
    CASE col = ColTarget -> {Word("c"), Word("new")}
      [] col = ColComment -> {PyStr(EmptyStr), PyNone}
      [] col = ColPK -> {PyBool(TRUE), PyNone}
      [] col = ColJoin -> {PyBool(TRUE)}
      [] OTHER -> {}

NoGrid == [columns |-> <<>>, rows |-> <<>>]
NoOut ==
    [raised |-> FALSE, exc |-> "", schema |-> PyNone,
     primary_keys |-> <<>>, scd_join_keys |-> <<>>, scd_sequence_keys |-> <<>>]

GridIdle ==
    /\ gFields = <<>>
    /\ gKeys = [pk |-> <<>>, jk |-> <<>>, sk |-> <<>>]
    /\ gGrid = NoGrid
    /\ gEdits = 0
    /\ gView = "full"
    /\ gPc = "idle"
    /\ gOut = NoOut

NoLoad ==
    [loaded |-> FALSE, dataschema |-> PyNone,
     primary_keys |-> <<>>, scd_join_keys |-> <<>>, scd_sequence_keys |-> <<>>]
NoSaved == [saved |-> FALSE, grid |-> NoGrid, schema_updated |-> FALSE, config_updated |-> FALSE]

\* no TableConfig object has been made
NoObject == [config |-> PyNone]
RefreshIdle ==
    /\ rc = NoObject
    /\ rcExc = "idle"

\* the filter widgets at their defaults: "All", "", ""
DefaultFilters == "All||"
NothingShown ==
    [rows |-> FALSE, page |-> 0, start_idx |-> 0, end_idx |-> 0, total_rows |-> 0,
     total_pages |-> 0, filters |-> FALSE, enabled |-> {}, reset |-> FALSE]
ListIdle ==
    /\ current_page = 0
    /\ last_filters = "unset"
    /\ filter_inputs = DefaultFilters
    /\ shown = NothingShown
    /\ listPc = "idle"

Sessions == {1, 2}
ClosedSession ==
    [pc |-> "closed", tc |-> PyNone, grid |-> NoGrid, edits |-> 0, out |-> NoOut,
     schema_updated |-> FALSE, config_updated |-> FALSE]
NoWriter == [schema |-> 0, keys |-> 0, any |-> 0]
SessIdle ==
    /\ sRow = PyNone
    /\ sess = [s \in Sessions |-> ClosedSession]
    /\ sLast = NoWriter

AppIdle ==
    /\ dbRow = PyNone
    /\ tc = PyNone
    /\ pView = "idle"
    /\ pGrid = NoGrid
    /\ pEdits = 0
    /\ pSaves = 0
    /\ pSaved = NoSaved
    /\ pMsg = "none"
    /\ dbCalls = 0
    /\ pFirstLoad = NoLoad

(***************************************************************************)
(* Bounds and input sets of the key-list specification                     *)
(***************************************************************************)
MaxRawLen == 4
MaxKeyLen == 2
MaxKeys == 2

\* characters of an arbitrary stored string
RawChars == {"a", "b", " ", ",", "[", "]", "\"", "1"}
\* characters of a key name handed to json.dumps
KeyChars == {"a", " ", "\""}

SeqsUpTo(S, n) == UNION {[1..m -> S] : m \in 0..n}

RawStrings == SeqsUpTo(RawChars, MaxRawLen)
KeyStrings == SeqsUpTo(KeyChars, MaxKeyLen)
KeyLists == SeqsUpTo(KeyStrings, MaxKeys)

\* stored strings taken from the documented examples: "a, b ,c", `["a", 1]`, `[" a"]`
ExampleStrings ==
    { <<"a", ",", " ", "b", " ", ",", "c">>,
      <<"[", "\"", "a", "\"", ",", " ", "1", "]">>,
      <<"[", "\"", " ", "a", "\"", "]">>,
      <<" ", "[", "\"", "a", "\"", "]">> }

\* values of a key column that are no str: SQL NULL, numbers, booleans
NonStringValues == {PyNone, PyInt(0), PyInt(12), PyBool(TRUE)}

KeyColumn == <<"PrimaryKeys">>
OtherColumn == <<"TableName">>

StrList(L) == PyList([i \in 1..Len(L) |-> PyStr(L[i])])

ConfigWith(value) ==
    PyDict([c \in {KeyColumn, OtherColumn} |-> IF c = KeyColumn THEN value ELSE PyStr(<<"t">>)])

NoInput == [how |-> "none", list |-> <<>>]

KeysIdle ==
    /\ klInput = NoInput
    /\ klConfig = PyNone
    /\ klPc = "idle"
    /\ klResult = Return(<<>>)

KeysInit ==
    /\ GridIdle
    /\ AppIdle
    /\ SessIdle
    /\ ListIdle
    /\ RefreshIdle
    /\ klPc = "stored"
    /\ klResult = Return(<<>>)
    /\ \/ \E L \in KeyLists :
             /\ klInput = [how |-> "dumps", list |-> L]
             /\ klConfig = ConfigWith(PyStr(json_dumps(StrList(L))))
       \/ \E s \in RawStrings \cup ExampleStrings :
             /\ klInput = [how |-> "raw", list |-> <<>>]
             /\ klConfig = ConfigWith(PyStr(s))
       \/ \E v \in NonStringValues :
             /\ klInput = [how |-> "nonstr", list |-> <<>>]
             /\ klConfig = ConfigWith(v)
       \/ /\ klInput = [how |-> "missing", list |-> <<>>]
          /\ klConfig = PyDict([c \in {OtherColumn} |-> PyStr(<<"t">>)])
       \/ /\ klInput = [how |-> "noconfig", list |-> <<>>]
          /\ klConfig \in {PyNone, PyDict(EmptyDict)}

\* self.parse_key_list("PrimaryKeys")
ParseKeyListCall ==
    /\ klPc = "stored"
    /\ klResult' = parse_key_list(klConfig, KeyColumn)
    /\ klPc' = "done"
    /\ UNCHANGED <<klInput, klConfig, gridVars, appVars, sessVars, listVars, refreshVars>>

KeysNext == ParseKeyListCall

SpecKeys == KeysInit /\ [][KeysNext]_vars

klValue == DictGet(klConfig, KeyColumn, PyStr(EmptyStr))

(***************************************************************************)
(* The grid specification: F -> schema_to_dataframe -> edits ->            *)
(* dataframe_to_schema                                                     *)
(***************************************************************************)
GridInit ==
    /\ KeysIdle
    /\ AppIdle
    /\ SessIdle
    /\ ListIdle
    /\ RefreshIdle
    /\ gFields \in FieldSeqs
    /\ gKeys \in KeyArgs
    /\ gGrid = NoGrid
    /\ gEdits = 0
    /\ gView = "full"
    /\ gPc = "init"
    /\ gOut = NoOut

\* TableConfig.schema_to_dataframe(F, primary_keys, scd_join_keys, scd_sequence_keys)
ToGridCall ==
    /\ gPc = "init"
    /\ gGrid' = schema_to_dataframe(gFields, gKeys.pk, gKeys.jk, gKeys.sk)
    /\ gPc' = "grid"
    /\ UNCHANGED <<gFields, gKeys, gEdits, gView, gOut, keysVars, appVars, sessVars, listVars, refreshVars>>

\* schema_df[[the eight base columns]], lines 267-278 of the edit page
BaseColumnsOf(df) ==
    [columns |-> EmptyGridColumns,
     rows |-> [i \in 1..Len(df.rows) |-> [c \in SeqRange(EmptyGridColumns) |-> df.rows[i][c]]]]

SelectBaseColumns ==
    /\ gPc = "grid" /\ gView = "full" /\ gEdits = 0
    /\ gGrid.rows # <<>>
    /\ gGrid' = BaseColumnsOf(gGrid)
    /\ gView' = "base"
    /\ UNCHANGED <<gFields, gKeys, gEdits, gPc, gOut, keysVars, appVars, sessVars, listVars, refreshVars>>

\* st.data_editor: the operator changes one cell
EditCell ==
    /\ gPc = "grid" /\ gEdits < MaxEdits
    /\ \E i \in 1..Len(gGrid.rows) : \E col \in SeqRange(gGrid.columns) :
         \E v \in EditValues(col) :
            /\ gGrid.rows[i][col] # v
            /\ gGrid' = [gGrid EXCEPT !.rows[i][col] = v]
    /\ gEdits' = gEdits + 1
    /\ UNCHANGED <<gFields, gKeys, gView, gPc, gOut, keysVars, appVars, sessVars, listVars, refreshVars>>

\* st.data_editor(num_rows="dynamic"): a row is added once its required
\* cells (Target Name, Data Type, Nullable) are filled; its other cells are None
AddRow ==
    /\ gPc = "grid" /\ gEdits < MaxEdits
    /\ gGrid.columns # <<>>
    /\ \E tn \in {Word("new"), Word("t")} :
         gGrid' = [gGrid EXCEPT !.rows =
                      Append(@, [c \in SeqRange(gGrid.columns) |->
                                   CASE c = ColTarget -> tn
                                     [] c = ColType -> Word("string")
                                     [] c = ColNullable -> PyBool(TRUE)
                                     [] OTHER -> PyNone])]
    /\ gEdits' = gEdits + 1
    /\ UNCHANGED <<gFields, gKeys, gView, gPc, gOut, keysVars, appVars, sessVars, listVars, refreshVars>>

DeleteRow ==
    /\ gPc = "grid" /\ gEdits < MaxEdits
    /\ \E i \in 1..Len(gGrid.rows) :
         gGrid' = [gGrid EXCEPT !.rows =
                      SubSeq(@, 1, i - 1) \o SubSeq(@, i + 1, Len(@))]
    /\ gEdits' = gEdits + 1
    /\ UNCHANGED <<gFields, gKeys, gView, gPc, gOut, keysVars, appVars, sessVars, listVars, refreshVars>>

\* TableConfig.dataframe_to_schema(grid, F)
FromGridCall ==
    /\ gPc = "grid"
    /\ gOut' = dataframe_to_schema(gGrid, gFields)
    /\ gFields' = original_schema_fields_after(gGrid, gFields)
    /\ gPc' = "done"
    /\ UNCHANGED <<gKeys, gGrid, gEdits, gView, keysVars, appVars, sessVars, listVars, refreshVars>>

GridNext == ToGridCall \/ SelectBaseColumns \/ EditCell \/ AddRow \/ DeleteRow \/ FromGridCall

SpecGrid == GridInit /\ [][GridNext]_vars


(***************************************************************************)
(* Cell values: schema_to_dataframe, changes of Nullable and metadata      *)
(* cells by the caller, dataframe_to_schema                                *)
(***************************************************************************)
\* a field with one metadata key besides target_name
CellField(name, nullable, key, value) ==
    MkDict({<<K_name, Word(name)>>, <<K_type, Word("string")>>, <<K_nullable, nullable>>,
            <<K_metadata, MkDict({<<K_target_name, Word(name)>>, <<key, value>>})>>})

\* a plain key, and a key that itself holds the text "metadata."
CellKeys == {<<"x">>, <<MetaPrefix, "o">>}

CellFieldSeqs ==
    {<<CellField("t", n, k, v)>> :
        n \in {PyBool(TRUE), Word("TRUE"), PyInt(1)}, k \in CellKeys,
        v \in {Word("v"), PyInt(0), PyNone}}
    \cup {<<CellField("t", PyInt(1), <<"x">>, PyInt(0)),
            CellField("u", PyNone, <<"x">>, PyNone)>>,
          <<CellField("t", PyBool(TRUE), <<MetaPrefix, "o">>, Word("v")),
            CellField("u", PyBool(FALSE), <<"x">>, Word("w"))>>}

\* the values a caller puts into a Nullable cell or a metadata.<key> cell
CellValues(col) ==
    IF col = ColNullable
    THEN {PyBool(FALSE), Word("true"), Word("True"), Word("false"), Word("yes"),
          PyStr(EmptyStr), PyInt(0), PyInt(1), PyNone, PyNaN}
    ELSE {PyBool(FALSE), PyInt(0), PyStr(EmptyStr), Word("w"), PyNone}

CellsInit ==
    /\ KeysIdle
    /\ AppIdle
    /\ SessIdle
    /\ ListIdle
    /\ RefreshIdle
    /\ gFields \in CellFieldSeqs
    /\ gKeys = [pk |-> <<>>, jk |-> <<>>, sk |-> <<>>]
    /\ gGrid = NoGrid
    /\ gEdits = 0
    /\ gView = "full"
    /\ gPc = "init"
    /\ gOut = NoOut

\* the caller changes a Nullable cell or a metadata.<key> cell of the grid
SetCell ==
    /\ gPc = "grid" /\ gEdits < MaxEdits
    /\ \E i \in 1..Len(gGrid.rows) :
         \E col \in {c \in SeqRange(gGrid.columns) : c = ColNullable \/ IsMetaCol(c)} :
            \E v \in CellValues(col) :
               /\ gGrid.rows[i][col] # v
               /\ gGrid' = [gGrid EXCEPT !.rows[i][col] = v]
    /\ gEdits' = gEdits + 1
    /\ UNCHANGED <<gFields, gKeys, gView, gPc, gOut, keysVars, appVars, sessVars, listVars, refreshVars>>

CellsNext == ToGridCall \/ SetCell \/ FromGridCall

SpecCells == CellsInit /\ [][CellsNext]_vars

(***************************************************************************)
(* TableConfig loading, the warehouse updates and the edit page            *)
(***************************************************************************)
C_DataSchema == <<"DataSchema">>
C_PrimaryKeys == <<"PrimaryKeys">>
C_ScdJoinKeys == <<"ScdJoinKeys">>
C_ScdSequenceKeys == <<"ScdSequenceKeys">>

\* _parse_dataschema with the decode error swallowed
ParseDataschemaLenient(dataschema_str) ==
    IF ~Truthy(dataschema_str) THEN Return(PyList(<<>>))
    ELSE LET schema == json_loads(dataschema_str.s)
         IN  IF schema.ok /\ schema.val.kind = "dict" /\ K_fields \in DOMAIN schema.val.d
             THEN Return(schema.val.d[K_fields])
             ELSE Return(PyList(<<>>))

\* TableConfig._parse_dataschema
parse_dataschema(dataschema_str) ==
    IF ~Truthy(dataschema_str) THEN Return(PyList(<<>>))
    ELSE LET schema == json_loads(dataschema_str.s)
         IN  IF ~schema.ok THEN Raise("ValueError")
             ELSE IF schema.val.kind = "dict" /\ K_fields \in DOMAIN schema.val.d
                  THEN Return(schema.val.d[K_fields])
                  ELSE Return(PyList(<<>>))

\* TableConfig.__init__ up to the call of _load_config
NewTableConfig ==
    [config |-> PyNone, dataschema |-> PyList(<<>>), dataschema_str |-> PyStr(EmptyStr),
     primary_keys |-> <<>>, scd_join_keys |-> <<>>, scd_sequence_keys |-> <<>>]

\* the attributes _load_config assigns once _parse_dataschema has returned
LoadedTableConfig(config, dataschema_str, dataschema) ==
    [config |-> config,
     primary_keys |-> parse_key_list(config, C_PrimaryKeys).val,
     scd_join_keys |-> parse_key_list(config, C_ScdJoinKeys).val,
     scd_sequence_keys |-> parse_key_list(config, C_ScdSequenceKeys).val,
     dataschema_str |-> dataschema_str,
     dataschema |-> dataschema]

ParsedTableConfig(config, dataschema_str, parsed) ==
    IF parsed.raised THEN [raised |-> TRUE, exc |-> parsed.exc, tc |-> NewTableConfig]
    ELSE [raised |-> FALSE, exc |-> "",
          tc |-> LoadedTableConfig(config, dataschema_str, parsed.val)]

LoadDataschema(config, dataschema_str) ==
    ParsedTableConfig(config, dataschema_str, parse_dataschema(dataschema_str))

\* TableConfig(table_key): __init__ and _load_config on the fetched row
\* (None when no row was fetched); an exception leaves no object
load_config(config) ==
    IF ~Truthy(config)
    THEN [raised |-> FALSE, exc |-> "", tc |-> [NewTableConfig EXCEPT !.config = config]]
    ELSE LoadDataschema(config, DictGet(config, C_DataSchema, PyStr(EmptyStr)))

\* TableConfig.is_loaded
is_loaded(t) == t.config # PyNone

\* TableConfig.get_schema_dataframe
get_schema_dataframe(t) ==
    IF ~Truthy(t.dataschema) THEN [columns |-> EmptyGridColumns, rows |-> <<>>]
    ELSE schema_to_dataframe(t.dataschema.items, t.primary_keys, t.scd_join_keys,
                             t.scd_sequence_keys)

\* TableConfig.convert_dataframe_to_schema
convert_dataframe_to_schema(t, df) == dataframe_to_schema(df, t.dataschema.items)

\* value.replace("'", "''")
RECURSIVE SqlEscape(_)
SqlEscape(s) ==
    IF "'" \notin SeqRange(s) THEN s
    ELSE (IF Head(s) = "'" THEN <<"'", "'">> ELSE <<Head(s)>>) \o SqlEscape(Tail(s))

\* the string a '...' literal with this text between the quotes denotes; a
\* quote that is not doubled ends the literal early and the statement fails
RECURSIVE SqlLiteralValue(_)
SqlLiteralValue(text) ==
    IF "'" \notin SeqRange(text) THEN [ok |-> TRUE, val |-> text]
    ELSE IF Head(text) # "'"
         THEN LET r == SqlLiteralValue(Tail(text))
              IN  [ok |-> r.ok, val |-> <<Head(text)>> \o r.val]
         ELSE IF Len(text) >= 2 /\ text[2] = "'"
              THEN LET r == SqlLiteralValue(SubSeq(text, 3, Len(text)))
                   IN  [ok |-> r.ok, val |-> <<"'">> \o r.val]
              ELSE [ok |-> FALSE, val |-> <<>>]

\* the row after UPDATE ... SET column = 'text', or the failure of the statement
SetColumn(row, column, literal) ==
    IF literal.ok THEN [ok |-> TRUE, row |-> PyDict(DictSet(row.d, column, PyStr(literal.val)))]
    ELSE [ok |-> FALSE, row |-> row]

\* database.update_DataSchema: the JSON text goes between the quotes as it
\* is; executes is whether the connection and the cursor work
update_DataSchema(row, new_schema, executes) ==
    IF ~executes THEN [ok |-> FALSE, row |-> row]
    ELSE SetColumn(row, C_DataSchema, SqlLiteralValue(json_dumps(new_schema)))

\* one SET clause of update_table_config, lines 171-181
SetClause(row, column, value) ==
    IF value = PyNone THEN PyDict(DictSet(row.d, column, PyNone))
    ELSE SetColumn(row, column, SqlLiteralValue(SqlEscape(Str(value)))).row

\* an update_table_config that writes the first of its columns only
update_table_config_first_column(row, updates, executes) ==
    IF ~executes THEN [ok |-> FALSE, row |-> row]
    ELSE [ok |-> TRUE, row |-> SetClause(row, C_PrimaryKeys, updates.PrimaryKeys)]

\* database.update_table_config with the three key columns
update_table_config(row, updates, executes) ==
    IF ~executes THEN [ok |-> FALSE, row |-> row]
    ELSE [ok |-> TRUE,
          row |-> SetClause(SetClause(SetClause(row, C_PrimaryKeys, updates.PrimaryKeys),
                                      C_ScdJoinKeys, updates.ScdJoinKeys),
                            C_ScdSequenceKeys, updates.ScdSequenceKeys)]

\* ",".join(keys) if keys else None, lines 299-301 of the edit page: keys is
\* the JSON text that convert_dataframe_to_schema returned
JoinOrNone(keys) ==
    IF Truthy(PyStr(keys)) THEN PyStr(JoinChars(",", keys)) ELSE PyNone

config_updates(out) ==
    [PrimaryKeys |-> JoinOrNone(out.primary_keys),
     ScdJoinKeys |-> JoinOrNone(out.scd_join_keys),
     ScdSequenceKeys |-> JoinOrNone(out.scd_sequence_keys)]

(***************************************************************************)
(* Bounds and input sets of the page specification                         *)
(***************************************************************************)
MaxSaves == 1

\* {"fields": [...]} documents
Document(fields) == PyDict([k \in {K_fields} |-> PyList(fields)])
PageFieldSeqs ==
    {<<>>, <<FieldJunk>>, <<FieldA, FieldB>>, <<FieldA, FieldD>>, <<FieldB, FieldC>>}

\* stored DataSchema values: NULL, "", blank, cut-off JSON, JSON that is no
\* document, documents
RawSchemas ==
    {PyNone, PyStr(EmptyStr), PyStr(<<" ">>),
     PyStr(<<"{", "\"", "fields", "\"", ":">>),
     PyStr(<<"n", "o">>),
     PyStr(<<"[", "1", "]">>),
     PyStr(<<"1", "2">>),
     PyStr(json_dumps(MkDict({<<<<"nope">>, PyInt(1)>>})))}
    \cup {PyStr(json_dumps(Document(F))) : F \in PageFieldSeqs}

\* stored key columns: NULL, a JSON array, comma lists
StoredKeys ==
    { [pk |-> PyNone, jk |-> PyNone, sk |-> PyNone],
      [pk |-> PyStr(json_dumps(StrList(<< <<"u">> >>))), jk |-> PyStr(<<"t">>),
       sk |-> PyStr(<<"t", ",", " ", "u">>)] }

StoredRow(schema, keys) ==
    PyDict([c \in {C_DataSchema, C_PrimaryKeys, C_ScdJoinKeys, C_ScdSequenceKeys} |->
              CASE c = C_DataSchema -> schema
                [] c = C_PrimaryKeys -> keys.pk
                [] c = C_ScdJoinKeys -> keys.jk
                [] OTHER -> keys.sk])

TickColumns == {ColPK, ColJoin, ColSeq}

(***************************************************************************)
(* The page specification: runs of pages/1_Edit_Config.py on one row       *)
(***************************************************************************)
Init ==
    /\ KeysIdle
    /\ GridIdle
    /\ SessIdle
    /\ ListIdle
    /\ RefreshIdle
    /\ \E schema \in RawSchemas : \E keys \in StoredKeys : dbRow = StoredRow(schema, keys)
    /\ tc = NewTableConfig
    /\ pView = "run"
    /\ pGrid = NoGrid
    /\ pEdits = 0
    /\ pSaves = 0
    /\ pSaved = NoSaved
    /\ pMsg = "none"
    /\ dbCalls = 0
    /\ pFirstLoad = NoLoad

\* lines 186-283 on a loaded TableConfig: which part of the page is shown
ShowSchema(t, df) ==
    IF ~Truthy(t.dataschema_str) THEN [view |-> "no_schema", grid |-> NoGrid]
    ELSE IF df.rows = <<>> THEN [view |-> "raw", grid |-> NoGrid]
    ELSE [view |-> "editor", grid |-> BaseColumnsOf(df)]

\* lines 67-74: an exception of TableConfig(table_key) is not caught and ends
\* the run; a TableConfig that is not loaded is dropped
PageOf(loaded) ==
    IF loaded.raised THEN [view |-> "load_error", grid |-> NoGrid, tc |-> NewTableConfig]
    ELSE IF ~is_loaded(loaded.tc)
         THEN [view |-> "not_loaded", grid |-> NoGrid, tc |-> NewTableConfig]
         ELSE [view |-> ShowSchema(loaded.tc, get_schema_dataframe(loaded.tc)).view,
               grid |-> ShowSchema(loaded.tc, get_schema_dataframe(loaded.tc)).grid,
               tc |-> loaded.tc]

\* what a load parsed, kept from the first load on
LoadSeen(seen, page) ==
    IF seen.loaded \/ page.view \notin {"no_schema", "raw", "editor"} THEN seen
    ELSE [loaded |-> TRUE, dataschema |-> page.tc.dataschema,
          primary_keys |-> page.tc.primary_keys,
          scd_join_keys |-> page.tc.scd_join_keys,
          scd_sequence_keys |-> page.tc.scd_sequence_keys]

\* one run of the script on the given TableConfig(table_key)
ShowPage(page) ==
    /\ tc' = page.tc
    /\ pView' = page.view
    /\ pGrid' = page.grid
    /\ pFirstLoad' = LoadSeen(pFirstLoad, page)

\* a run that builds no TableConfig when the page holds a loaded one
RunPageKeepConfig ==
    /\ pView = "run"
    /\ \E fetched \in {dbRow, PyNone} :
         ShowPage(PageOf(IF is_loaded(tc) THEN [raised |-> FALSE, exc |-> "", tc |-> tc]
                         ELSE load_config(fetched)))
    /\ pMsg' = "none"
    /\ UNCHANGED <<dbRow, pEdits, pSaves, pSaved, dbCalls, keysVars, gridVars, sessVars, listVars, refreshVars>>

\* one run of the script; fetch_table_config returns None when the
\* connection fails
RunPage ==
    /\ pView = "run"
    /\ \E fetched \in {dbRow, PyNone} : ShowPage(PageOf(load_config(fetched)))
    /\ pMsg' = "none"
    /\ UNCHANGED <<dbRow, pEdits, pSaves, pSaved, dbCalls, keysVars, gridVars, sessVars, listVars, refreshVars>>

\* st.data_editor: the operator ticks or unticks a checkbox
TickCell ==
    /\ pView \in {"editor", "new_schema"} /\ pEdits < MaxEdits
    /\ \E i \in 1..Len(pGrid.rows) : \E col \in TickColumns : \E b \in BOOLEAN :
         /\ pGrid.rows[i][col] # PyBool(b)
         /\ pGrid' = [pGrid EXCEPT !.rows[i][col] = PyBool(b)]
    /\ pEdits' = pEdits + 1
    /\ UNCHANGED <<dbRow, tc, pView, pSaves, pSaved, pMsg, dbCalls, pFirstLoad,
                   keysVars, gridVars, sessVars, listVars, refreshVars>>

\* lines 305-314: the message of Save Schema Changes
SaveMessage(schema_updated, config_updated) ==
    IF schema_updated /\ config_updated THEN "success"
    ELSE IF schema_updated THEN "warning"
    ELSE "error"

\* lines 303-314: what follows the two updates
AfterSave(grid, schema_upd, config_upd) ==
    /\ dbRow' = config_upd.row
    /\ pSaved' = [saved |-> TRUE, grid |-> grid, schema_updated |-> schema_upd.ok,
                  config_updated |-> config_upd.ok]
    /\ pMsg' = SaveMessage(schema_upd.ok, config_upd.ok)
    /\ dbCalls' = dbCalls + 2
    /\ pView' = IF schema_upd.ok THEN "run" ELSE "editor"
    /\ pGrid' = IF schema_upd.ok THEN NoGrid ELSE grid

\* an exception of convert_dataframe_to_schema is not caught and ends the run
SaveRaised ==
    /\ pView' = "save_error"
    /\ pGrid' = NoGrid
    /\ pMsg' = "none"
    /\ UNCHANGED <<dbRow, pSaved, dbCalls>>

SaveConverted(out, schema_executes, config_executes) ==
    IF out.raised THEN SaveRaised
    ELSE AfterSave(pGrid,
                   update_DataSchema(dbRow, out.schema, schema_executes),
                   update_table_config(update_DataSchema(dbRow, out.schema, schema_executes).row,
                                       config_updates(out), config_executes))

\* the Save Schema Changes button, lines 289-314
SaveSchemaChanges ==
    /\ pView = "editor" /\ pSaves < MaxSaves
    /\ \E schema_executes, config_executes \in BOOLEAN :
         SaveConverted(convert_dataframe_to_schema(tc, pGrid), schema_executes, config_executes)
    /\ pSaves' = pSaves + 1
    /\ UNCHANGED <<tc, pEdits, pFirstLoad, keysVars, gridVars, sessVars, listVars, refreshVars>>

\* empty_df, lines 350-362
NewSchemaGrid ==
    [columns |-> <<ColFieldName, ColType, ColNullable, ColPK, ColJoin, ColSeq, ColComment>>,
     rows |-> << [c \in {ColFieldName, ColType, ColNullable, ColPK, ColJoin, ColSeq, ColComment} |->
                    CASE c = ColFieldName -> Word("new_field")
                      [] c = ColType -> Word("string")
                      [] c = ColNullable -> PyBool(TRUE)
                      [] c = ColComment -> PyStr(EmptyStr)
                      [] OTHER -> PyBool(FALSE)] >>]

\* the Add Schema Fields button, lines 348-396
AddSchemaFields ==
    /\ pView = "no_schema"
    /\ pView' = "new_schema"
    /\ pGrid' = NewSchemaGrid
    /\ UNCHANGED <<dbRow, tc, pEdits, pSaves, pSaved, pMsg, dbCalls, pFirstLoad,
                   keysVars, gridVars, sessVars, listVars, refreshVars>>

\* st.data_editor(empty_df, num_rows="dynamic"): the operator deletes a row
DeleteNewRow ==
    /\ pView = "new_schema" /\ pEdits < MaxEdits
    /\ pGrid.rows # <<>>
    /\ pGrid' = [pGrid EXCEPT !.rows = Tail(@)]
    /\ pEdits' = pEdits + 1
    /\ UNCHANGED <<dbRow, tc, pView, pSaves, pSaved, pMsg, dbCalls, pFirstLoad,
                   keysVars, gridVars, sessVars, listVars, refreshVars>>

\* lines 405-418: the result of update_table_config is dropped
AfterNewSave(grid, schema_upd, config_upd, calls) ==
    /\ dbRow' = config_upd.row
    /\ pSaved' = [saved |-> TRUE, grid |-> grid, schema_updated |-> schema_upd.ok,
                  config_updated |-> config_upd.ok]
    /\ pMsg' = IF schema_upd.ok THEN "success" ELSE "error"
    /\ dbCalls' = dbCalls + calls
    /\ pView' = IF schema_upd.ok THEN "run" ELSE "new_schema"
    /\ pGrid' = IF schema_upd.ok THEN NoGrid ELSE grid

\* `if primary_keys or scd_join_keys or scd_sequence_keys`, line 405, on
\* the three JSON texts
AnyKeys(out) ==
    \/ Truthy(PyStr(out.primary_keys))
    \/ Truthy(PyStr(out.scd_join_keys))
    \/ Truthy(PyStr(out.scd_sequence_keys))

SaveNewConverted(out, schema_executes, config_executes) ==
    IF out.raised THEN SaveRaised
    ELSE IF AnyKeys(out)
         THEN AfterNewSave(pGrid,
                  update_DataSchema(dbRow, out.schema, schema_executes),
                  update_table_config(update_DataSchema(dbRow, out.schema, schema_executes).row,
                                      config_updates(out), config_executes),
                  2)
         ELSE AfterNewSave(pGrid,
                  update_DataSchema(dbRow, out.schema, schema_executes),
                  [ok |-> TRUE, row |-> update_DataSchema(dbRow, out.schema, schema_executes).row],
                  1)

\* the Save New Schema button, lines 398-418, in a run in which the block of
\* Add Schema Fields is executed
SaveNewSchema ==
    /\ pView = "new_schema" /\ pSaves < MaxSaves
    /\ \E schema_executes, config_executes \in BOOLEAN :
         SaveNewConverted(convert_dataframe_to_schema(tc, pGrid),
                          schema_executes, config_executes)
    /\ pSaves' = pSaves + 1
    /\ UNCHANGED <<tc, pEdits, pFirstLoad, keysVars, gridVars, sessVars, listVars, refreshVars>>

\* the Reset button, lines 316-318: st.rerun()
ResetButton ==
    /\ pView = "editor"
    /\ pView' = "run"
    /\ pGrid' = NoGrid
    /\ UNCHANGED <<dbRow, tc, pEdits, pSaves, pSaved, pMsg, dbCalls, pFirstLoad,
                   keysVars, gridVars, sessVars, listVars, refreshVars>>

\* the Refresh Data button of the sidebar, lines 40-42: it is drawn before
\* the TableConfig is built, so every page has it; a rerun in which Add
\* Schema Fields reports no click drops the new-schema editor the same way
RefreshData ==
    /\ pView \in {"load_error", "not_loaded", "no_schema", "raw", "save_error", "new_schema"}
    /\ pView' = "run"
    /\ pGrid' = NoGrid
    /\ UNCHANGED <<dbRow, tc, pEdits, pSaves, pSaved, pMsg, dbCalls, pFirstLoad,
                   keysVars, gridVars, sessVars, listVars, refreshVars>>

Next ==
    \/ RunPage \/ TickCell \/ SaveSchemaChanges \/ ResetButton \/ RefreshData
    \/ AddSchemaFields \/ DeleteNewRow \/ SaveNewSchema

Spec == Init /\ [][Next]_vars


(***************************************************************************)
(* Claims about parse_key_list (specification SpecKeys)                    *)
(***************************************************************************)
klDone == klPc = "done"
klList == klInput.list

\* the comma-split reading of a stored value: the pieces of str(value)
\* between commas, trimmed, the empty ones dropped
CommaFields(value) ==
    LET parts == Split(Str(value), ",")
    IN  FilterNonEmpty([i \in 1..Len(parts) |-> Strip(parts[i])])

NoBlankElement(L) == \A i \in 1..Len(L) : Strip(L[i]) # EmptyStr
AllTrimmed(L) == \A i \in 1..Len(L) : L[i] # EmptyStr /\ Strip(L[i]) = L[i]

\* C8, as stated: for every list L of strings none of which is empty or
\* whitespace-only, parse_key_list of the JSON array serialization of L
\* returns exactly L.
C8_RoundTripNoBlank ==
    klDone /\ klInput.how = "dumps" /\ NoBlankElement(klList)
        => ~klResult.raised /\ klResult.val = klList

\* C8, amended: for every list L of strings each of which is non-empty and
\* has no leading or trailing whitespace, parse_key_list of the JSON array
\* serialization of L returns exactly L (same elements, same order).
C8_RoundTripTrimmed ==
    klDone /\ klInput.how = "dumps" /\ AllTrimmed(klList)
        => ~klResult.raised /\ klResult.val = klList

\* a two-element list with an element that json.dumps has to escape came back
C8_Witness ==
    /\ klDone /\ klInput.how = "dumps" /\ AllTrimmed(klList)
    /\ Len(klList) = 2
    /\ klList[1] # klList[2]
    /\ \E i \in 1..2 : \E j \in 1..Len(klList[i]) : klList[i][j] = "\""
    /\ klResult.val = klList

\* C9: a key column holding the empty string or None (SQL NULL) parses to
\* the empty list, and the comma list "a, b ,c" to ["a", "b", "c"].
C9_EmptyNoneAndCommaList ==
    klDone /\ klInput.how \in {"raw", "nonstr"}
        => /\ klValue = PyStr(EmptyStr) => klResult.val = <<>>
           /\ klValue = PyNone => klResult.val = <<>>
           /\ klValue = PyStr(<<"a", ",", " ", "b", " ", ",", "c">>)
                 => klResult.val = << <<"a">>, <<"b">>, <<"c">> >>

\* the stored values C10 names
IsBracketString(v) == v.kind = "str" /\ At(v.s, 1) = "["
InvalidJsonArray(v) == IsBracketString(v) /\ ~json_loads(v.s).ok
ArrayWithNonString(v) ==
    /\ IsBracketString(v) /\ json_loads(v.s).ok
    /\ \E i \in 1..Len(json_loads(v.s).val.items) : json_loads(v.s).val.items[i].kind # "str"

\* C10: parse_key_list never raises; a string that starts with "[" but is
\* not valid JSON, a JSON array with a non-string element, a non-string
\* value and None all yield the comma-split reading of the value.
C10_NeverRaisesFallsBack ==
    klDone =>
        /\ ~klResult.raised
        /\ (/\ klInput.how \in {"raw", "nonstr", "dumps"}
            /\ \/ InvalidJsonArray(klValue)
               \/ ArrayWithNonString(klValue)
               \/ klValue.kind # "str")
              => klResult.val = CommaFields(klValue)

\* a valid JSON array holding a number was read by the comma-split fallback
C10_Witness ==
    /\ klDone /\ klInput.how = "raw" /\ ArrayWithNonString(klValue)
    /\ ~klResult.raised
    /\ klResult.val # <<>>

(***************************************************************************)
(* Claims about schema_to_dataframe and dataframe_to_schema                *)
(* (specification SpecGrid)                                                *)
(***************************************************************************)
gConverted == gPc = "done" /\ ~gOut.raised
gUnedited == gEdits = 0 /\ gView = "full"
OutFields == gOut.schema.d[K_fields].items

\* a field that enters the lookup of dataframe_to_schema, and its identity:
\* metadata.target_name, or name when it has no target_name
HasIdentity(f) == IsDict(f) /\ IsDict(DictGet(f, K_metadata, PyDict(EmptyDict)))
Identity(f) ==
    IF K_target_name \in DOMAIN MetadataOf(f).d THEN MetadataOf(f).d[K_target_name]
    ELSE DictGet(f, K_name, PyStr(EmptyStr))
Matches(row, f) == HasIdentity(f) /\ Identity(f) = row[ColTarget]
Matched(row) == \E n \in 1..Len(gFields) : Matches(row, gFields[n])
\* the last original field with the identity of the row
LastMatch(row) ==
    gFields[CHOOSE n \in 1..Len(gFields) :
               /\ Matches(row, gFields[n])
               /\ \A m \in (n + 1)..Len(gFields) : ~Matches(row, gFields[m])]

MetaKeys(f) == DOMAIN MetadataOf(f).d
\* the metadata keys some column of the grid is written to
DisplayedKeys == {RemoveMetaPrefix(c) : c \in {x \in SeqRange(gGrid.columns) : IsMetaCol(x)}}
CellEmpty(v) == ~NotNa(v) \/ v = PyStr(EmptyStr)

\* C1: for every non-empty F and any key lists, schema_to_dataframe followed
\* by dataframe_to_schema on the unedited grid with F as the original fields
\* yields, for every field of F, an output field that carries every
\* non-reserved metadata key of that field with its original value.
Carries(out, f) ==
    \A k \in MetaKeys(f) \ ReservedKeys :
        k \in MetaKeys(out) /\ MetadataOf(out).d[k] = MetadataOf(f).d[k]
C1_PassThrough ==
    gConverted /\ gUnedited
        => \A i \in 1..Len(gFields) :
              IsDict(gFields[i]) => \E j \in 1..Len(OutFields) : Carries(OutFields[j], gFields[i])

\* the Target Names of the rows whose `col` cell is truthy, in row order
RECURSIVE Ticked(_, _)
Ticked(rows, col) ==
    IF rows = <<>> THEN <<>>
    ELSE (IF Truthy(Head(rows)[col]) THEN <<Head(rows)[ColTarget]>> ELSE <<>>)
         \o Ticked(Tail(rows), col)
Decoded(text) == json_loads(text).val.items

InList(v, keys) == \E n \in 1..Len(keys) : v = PyStr(keys[n])
TargetOf(f) == DictGet(MetadataOf(f), K_target_name, PyStr(EmptyStr))
C4_KeyColumnsOfToGrid ==
    gPc = "grid" /\ gUnedited
        => LET dicts == SelectDicts(gFields)
           IN  /\ Len(gGrid.rows) = Len(dicts)
               /\ \A i \in 1..Len(dicts) :
                    /\ gGrid.rows[i][ColPK]
                          = DictGet(MetadataOf(dicts[i]), K_is_primary_key, PyStr(EmptyStr))
                    /\ gGrid.rows[i][ColJoin] = PyBool(InList(TargetOf(dicts[i]), gKeys.jk))
                    /\ gGrid.rows[i][ColSeq] = PyBool(InList(TargetOf(dicts[i]), gKeys.sk))

\* a field flagged in its metadata but absent from primary_keys is ticked, a
\* field listed in primary_keys but not flagged is not
C4_Witness ==
    /\ gPc = "grid" /\ gUnedited
    /\ \E i \in 1..Len(gGrid.rows) :
          /\ gGrid.rows[i][ColPK] = PyBool(TRUE)
          /\ ~InList(gGrid.rows[i][ColTarget], gKeys.pk)
          /\ gGrid.rows[i][ColJoin] = PyBool(TRUE)
    /\ \E i \in 1..Len(gGrid.rows) :
          /\ gGrid.rows[i][ColPK] = PyStr(EmptyStr)
          /\ InList(gGrid.rows[i][ColTarget], gKeys.pk)
          /\ gGrid.rows[i][ColJoin] = PyBool(FALSE)

\* the output field kept the name and the metadata keys (the comment, which
\* the Comment cell may clear, aside) of the original field f
StartsAsCopy(out, f) ==
    /\ DictGet(out, K_name, PyNone) = DictGet(f, K_name, PyNone)
    /\ MetaKeys(f) \ {K_comment} \subseteq MetaKeys(out)
\* the output field is new: named after Target Name, its metadata holding
\* only keys written from the cells of the row
MadeFromRow(out, row) ==
    /\ DictGet(out, K_name, PyNone) = row[ColTarget]
    /\ MetaKeys(out) \subseteq ReservedKeys \cup DisplayedKeys

CommentCleared(row) ==
    /\ Matched(row)
    /\ Truthy(DictGet(MetadataOf(LastMatch(row)), K_comment, PyStr(EmptyStr)))
    /\ CellEmpty(row[ColComment])

\* C6, as stated: then the output field has no comment key and every other
\* metadata key is exactly as in the original: none added, removed or changed.
C6_OnlyCommentRemoved ==
    gConverted
        => \A i \in 1..Len(gGrid.rows) :
              CommentCleared(gGrid.rows[i])
                 => MetadataOf(OutFields[i]).d
                       = DictDel(MetadataOf(LastMatch(gGrid.rows[i])).d, K_comment)

\* C6, amended: then the output field has no comment key; no other metadata
\* key of the original is removed; a key without a grid column keeps its
\* value; the only keys added or changed are source_name, target_name and
\* displayed metadata.<key> keys (from non-empty cells) and is_primary_key,
\* which is set to the boolean of a non-null Is Primary Key cell.
C6_CommentRemovedOthersKept ==
    gConverted
        => \A i \in 1..Len(gGrid.rows) :
              CommentCleared(gGrid.rows[i])
                 => LET orig == MetadataOf(LastMatch(gGrid.rows[i])).d
                        out == MetadataOf(OutFields[i]).d
                        written == {K_source_name, K_target_name, K_is_primary_key}
                                      \cup DisplayedKeys
                    IN  /\ K_comment \notin DOMAIN out
                        /\ (DOMAIN orig) \ {K_comment} \subseteq DOMAIN out
                        /\ \A k \in (DOMAIN orig) \ ({K_comment} \cup written) :
                              out[k] = orig[k]
                        /\ (DOMAIN out) \ (DOMAIN orig) \subseteq written
                        /\ NotNa(gGrid.rows[i][ColPK])
                              => out[K_is_primary_key] = PyBool(Truthy(gGrid.rows[i][ColPK]))

\* the operator cleared the comment of a field that had no is_primary_key:
\* the comment is gone, a hidden key is kept, is_primary_key: false is added
C6_Witness ==
    /\ gConverted /\ gEdits = 1 /\ gView = "base"
    /\ \E i \in 1..Len(gGrid.rows) :
          /\ CommentCleared(gGrid.rows[i])
          /\ K_is_primary_key \notin MetaKeys(LastMatch(gGrid.rows[i]))
          /\ K_comment \notin MetaKeys(OutFields[i])
          /\ MetadataOf(OutFields[i]).d[K_is_primary_key] = PyBool(FALSE)
          /\ <<"y">> \in MetaKeys(OutFields[i])

(***************************************************************************)
(* Claims about loading and saving (specification Spec)                    *)
(***************************************************************************)
pLoaded == pView \in {"no_schema", "raw", "editor"}
pSaveSucceeded == pSaved.saved /\ pSaved.schema_updated /\ pSaved.config_updated
\* the Target Names ticked in column col of the saved grid, as strings
SavedTicks(col) ==
    LET ticks == Ticked(pSaved.grid.rows, col) IN [i \in 1..Len(ticks) |-> ticks[i].s]

\* C2: Save Schema Changes writes each key list returned by
\* dataframe_to_schema to its column as that JSON array string, so after a
\* successful save the next load's parse_key_list returns, for each column,
\* the ordered list of Target Names ticked in the saved grid.
C2_SavedKeysReload ==
    pSaveSucceeded
        => /\ dbRow.d[C_PrimaryKeys] = PyStr(json_dumps(StrList(SavedTicks(ColPK))))
           /\ dbRow.d[C_ScdJoinKeys] = PyStr(json_dumps(StrList(SavedTicks(ColJoin))))
           /\ dbRow.d[C_ScdSequenceKeys] = PyStr(json_dumps(StrList(SavedTicks(ColSeq))))
           /\ pLoaded => /\ tc.primary_keys = SavedTicks(ColPK)
                         /\ tc.scd_join_keys = SavedTicks(ColJoin)
                         /\ tc.scd_sequence_keys = SavedTicks(ColSeq)

\* C7: _parse_dataschema returns [] for empty input, the value of `fields`
\* for a JSON object with `fields`, [] for any other well-formed JSON, and
\* raises for text that is no JSON; the error leaves TableConfig(table_key)
\* and the page shows no editable grid.
storedSchema == DictGet(dbRow, C_DataSchema, PyStr(EmptyStr))
FieldsOf(doc) ==
    IF doc.kind = "dict" /\ K_fields \in DOMAIN doc.d THEN doc.d[K_fields] ELSE PyList(<<>>)
MaxSessionEdits == 1
SessionFieldSeqs == {<<FieldA, FieldB>>}

\* the changes the sessions made in their editors
SessionEdits == sess[1].edits + sess[2].edits

SessInit ==
    /\ KeysIdle
    /\ GridIdle
    /\ AppIdle
    /\ ListIdle
    /\ RefreshIdle
    /\ \E F \in SessionFieldSeqs : \E keys \in StoredKeys :
         sRow = StoredRow(PyStr(json_dumps(Document(F))), keys)
    /\ sess = [s \in Sessions |-> ClosedSession]
    /\ sLast = NoWriter

\* a run of the page that shows the schema editor, lines 67-283
OpenSession(s) ==
    /\ sess[s].pc = "closed"
    /\ PageOf(load_config(sRow)).view = "editor"
    /\ sess' = [sess EXCEPT ![s].pc = "editing",
                            ![s].tc = PageOf(load_config(sRow)).tc,
                            ![s].grid = PageOf(load_config(sRow)).grid]
    /\ UNCHANGED <<sRow, sLast, keysVars, gridVars, appVars, listVars, refreshVars>>

\* st.data_editor: the operator of the session ticks or unticks a checkbox
SessionTick(s) ==
    /\ sess[s].pc = "editing" /\ SessionEdits < MaxSessionEdits
    /\ \E i \in 1..Len(sess[s].grid.rows) : \E col \in TickColumns : \E b \in BOOLEAN :
         /\ sess[s].grid.rows[i][col] # PyBool(b)
         /\ sess' = [sess EXCEPT ![s].grid.rows[i][col] = PyBool(b),
                                 ![s].edits = @ + 1]
    /\ UNCHANGED <<sRow, sLast, keysVars, gridVars, appVars, listVars, refreshVars>>

\* Save Schema Changes, lines 289-295: the conversion and the UPDATE of
\* update_DataSchema
SchemaStatement(s, out, upd) ==
    /\ sRow' = upd.row
    /\ sess' = [sess EXCEPT ![s].pc = "saving", ![s].out = out,
                            ![s].schema_updated = upd.ok]
    /\ sLast' = IF upd.ok THEN [sLast EXCEPT !.schema = s, !.any = s] ELSE sLast

SessionUpdateSchema(s) ==
    /\ sess[s].pc = "editing"
    /\ ~convert_dataframe_to_schema(sess[s].tc, sess[s].grid).raised
    /\ \E executes \in BOOLEAN :
         SchemaStatement(s, convert_dataframe_to_schema(sess[s].tc, sess[s].grid),
                         update_DataSchema(sRow,
                             convert_dataframe_to_schema(sess[s].tc, sess[s].grid).schema,
                             executes))
    /\ UNCHANGED <<keysVars, gridVars, appVars, listVars, refreshVars>>

\* Save Schema Changes, lines 297-303: the UPDATE of update_table_config
ConfigStatement(s, upd) ==
    /\ sRow' = upd.row
    /\ sess' = [sess EXCEPT ![s].pc = "done", ![s].config_updated = upd.ok]
    /\ sLast' = IF upd.ok THEN [sLast EXCEPT !.keys = s, !.any = s] ELSE sLast

SessionUpdateConfig(s) ==
    /\ sess[s].pc = "saving"
    /\ \E executes \in BOOLEAN :
         ConfigStatement(s, update_table_config(sRow, config_updates(sess[s].out), executes))
    /\ UNCHANGED <<keysVars, gridVars, appVars, listVars, refreshVars>>

SessNext ==
    \E s \in Sessions :
        \/ OpenSession(s)
        \/ SessionTick(s)
        \/ SessionUpdateSchema(s)
        \/ SessionUpdateConfig(s)

SpecSessions == SessInit /\ [][SessNext]_vars

(***************************************************************************)
(* The table list page: runs of app.py in one browser session              *)
(***************************************************************************)
ROWS_PER_PAGE == 10
MaxRows == 21       \* the most tables that match the filters
MaxBelow == 2       \* how far below 0 the model follows current_page

\* values of current_filters
FilterValues == {DefaultFilters, "All|a|"}

\* what st.button returns in the run of a click when this run draws the
\* clicked button disabled: that depends on the Streamlit build
DisabledClickOutcomes == BOOLEAN

ListInit ==
    /\ KeysIdle
    /\ GridIdle
    /\ AppIdle
    /\ SessIdle
    /\ RefreshIdle
    /\ current_page = 0
    /\ last_filters = "unset"
    /\ filter_inputs = DefaultFilters
    /\ shown = NothingShown
    /\ listPc = "start"

\* lines 108-113: the page after the comparison with last_filters
PageAfterFilters(page, last, filters) ==
    IF last # "unset" /\ last # filters THEN 0 ELSE page

\* line 130
TotalPages(total_rows) == (total_rows + ROWS_PER_PAGE - 1) \div ROWS_PER_PAGE

\* lines 133-134
PageInBounds(page, total_pages) ==
    IF page >= total_pages /\ total_pages > 0 THEN 0 ELSE page

\* lines 170-198: the pagination buttons drawn enabled
EnabledButtons(page, total_rows) ==
    IF total_rows > 0 /\ TotalPages(total_rows) > 1
    THEN (IF page = 0 THEN {} ELSE {"first", "previous"})
         \cup (IF page >= TotalPages(total_rows) - 1 THEN {} ELSE {"next", "last"})
    ELSE {}

\* lines 175-198: current_page after the handler of a button
PageAfterClick(click, page, total_pages) ==
    CASE click = "first" -> 0
      [] click = "previous" -> page - 1
      [] click = "next" -> page + 1
      [] OTHER -> total_pages - 1

\* the clicked button is reached in this run and st.button returns True
ClickFires(click, page, total_rows, fires_disabled) ==
    /\ click # "none"
    /\ total_rows > 0 /\ TotalPages(total_rows) > 1
    /\ (click \in EnabledButtons(page, total_rows) \/ fires_disabled)

\* lines 141-198 for a list with rows: what is drawn with this current_page
Rendered(page, total_rows, reset) ==
    [rows |-> total_rows > 0,
     page |-> page,
     start_idx |-> page * ROWS_PER_PAGE,
     end_idx |-> IF page * ROWS_PER_PAGE + ROWS_PER_PAGE < total_rows
                 THEN page * ROWS_PER_PAGE + ROWS_PER_PAGE ELSE total_rows,
     total_rows |-> total_rows,
     total_pages |-> TotalPages(total_rows),
     filters |-> TRUE,
     enabled |-> EnabledButtons(page, total_rows),
     reset |-> reset]

\* lines 67-198 when fetch_table_list returned rows
RunWithRows(page, filters, total_rows, click, fires_disabled) ==
    /\ last_filters' = filters
    /\ filter_inputs' = filters
    /\ shown' = Rendered(page, total_rows, last_filters # "unset" /\ last_filters # filters)
    /\ current_page' = IF ClickFires(click, page, total_rows, fires_disabled)
                       THEN PageAfterClick(click, page, TotalPages(total_rows))
                       ELSE page
    /\ listPc' = IF ClickFires(click, page, total_rows, fires_disabled) THEN "rerun" ELSE "ready"

\* one run of main(): has_rows is `df is not None and not df.empty`; without
\* rows no filter widget is drawn and their values are dropped
RunList(filters, has_rows, total_rows, click, fires_disabled) ==
    IF has_rows
    THEN RunWithRows(PageInBounds(PageAfterFilters(current_page, last_filters, filters),
                                  TotalPages(total_rows)),
                     filters, total_rows, click, fires_disabled)
    ELSE /\ shown' = NothingShown
         /\ filter_inputs' = DefaultFilters
         /\ listPc' = "ready"
         /\ UNCHANGED <<current_page, last_filters>>

\* the first run of a session and the run that st.rerun() starts
ListRerun ==
    /\ listPc \in {"start", "rerun"}
    /\ \E has_rows \in BOOLEAN : \E total_rows \in 0..MaxRows :
         RunList(filter_inputs, has_rows, total_rows, "none", FALSE)
    /\ UNCHANGED <<keysVars, gridVars, appVars, sessVars, refreshVars>>

\* the operator changes a filter widget, lines 95-101
ChangeFilter ==
    /\ listPc = "ready" /\ shown.filters
    /\ \E filters \in FilterValues \ {filter_inputs} :
         \E has_rows \in BOOLEAN : \E total_rows \in 0..MaxRows :
            RunList(filters, has_rows, total_rows, "none", FALSE)
    /\ UNCHANGED <<keysVars, gridVars, appVars, sessVars, refreshVars>>

\* the operator clicks First, Previous, Next or Last, which the last run
\* drew enabled; the table may have changed since
ClickPagination ==
    /\ listPc = "ready"
    /\ current_page > -MaxBelow
    /\ \E click \in shown.enabled :
         \E has_rows \in BOOLEAN : \E total_rows \in 0..MaxRows :
            \E fires_disabled \in DisabledClickOutcomes :
               RunList(filter_inputs, has_rows, total_rows, click, fires_disabled)
    /\ UNCHANGED <<keysVars, gridVars, appVars, sessVars, refreshVars>>

\* the Refresh Data button, lines 34-37
RefreshList ==
    /\ listPc = "ready"
    /\ current_page' = 0
    /\ listPc' = "rerun"
    /\ UNCHANGED <<last_filters, filter_inputs, shown, keysVars, gridVars, appVars, sessVars, refreshVars>>

ListNext == ListRerun \/ ChangeFilter \/ ClickPagination \/ RefreshList

SpecList == ListInit /\ [][ListNext]_vars

(***************************************************************************)
(* One TableConfig object: construction and refresh()                      *)
(***************************************************************************)
\* what db_fetch_table_config returns: None (no row, no connection, a
\* failed query) or the row as a dict
FetchedConfigs ==
    {PyNone} \cup
    {StoredRow(schema, keys) :
        schema \in RawSchemas \cup {PyStr(json_dumps(Document(<<FieldA, FieldB>>)))},
        keys \in StoredKeys}

\* TableConfig._load_config on the object t when the fetch returns config:
\* the object afterwards and the exception that leaves the method
ReloadedTableConfig(t, config, dataschema_str, parsed) ==
    [exc |-> IF parsed.raised THEN parsed.exc ELSE "",
     tc |-> LoadedTableConfig(config, dataschema_str,
                              IF parsed.raised THEN t.dataschema ELSE parsed.val)]

ReloadDataschema(t, config, dataschema_str) ==
    ReloadedTableConfig(t, config, dataschema_str, parse_dataschema(dataschema_str))

load_config_on(t, config) ==
    IF ~Truthy(config) THEN [exc |-> "", tc |-> [t EXCEPT !.config = config]]
    ELSE ReloadDataschema(t, config, DictGet(config, C_DataSchema, PyStr(EmptyStr)))

\* TableConfig.refresh
refresh(t, config) == load_config_on(t, config)

\* TableConfig.schema_fields
schema_fields(t) == IF Truthy(t.dataschema) THEN t.dataschema ELSE PyList(<<>>)

RefreshInit ==
    /\ KeysIdle
    /\ GridIdle
    /\ AppIdle
    /\ SessIdle
    /\ ListIdle
    /\ rc = NoObject
    /\ rcExc = ""

\* the holder's object after `table_config = TableConfig(table_key)`
Constructed(loaded) ==
    /\ rcExc' = loaded.exc
    /\ rc' = IF loaded.raised THEN rc ELSE loaded.tc

\* the holder's object after `table_config.refresh()`
Refreshed(reloaded) ==
    /\ rcExc' = reloaded.exc
    /\ rc' = reloaded.tc

\* TableConfig(table_key); when _load_config raises, no new object exists and
\* the holder keeps what it had
Construct ==
    /\ \E config \in FetchedConfigs : Constructed(load_config(config))
    /\ UNCHANGED <<keysVars, gridVars, appVars, sessVars, listVars>>

\* table_config.refresh() on the object the holder has
Refresh ==
    /\ rc # NoObject
    /\ \E config \in FetchedConfigs : Refreshed(refresh(rc, config))
    /\ UNCHANGED <<keysVars, gridVars, appVars, sessVars, listVars>>

RefreshNext == Construct \/ Refresh

SpecRefresh == RefreshInit /\ [][RefreshNext]_vars

(***************************************************************************)
(* More claims about parse_key_list (specification SpecKeys)               *)
(***************************************************************************)
\* the reading of a stored string as a JSON array of strings: its elements
\* trimmed, the empty ones dropped
JsonFields(s) ==
    LET items == json_loads(s).val.items
    IN  FilterNonEmpty([i \in 1..Len(items) |-> Strip(items[i].s)])
IsJsonStringArray(s) ==
    /\ json_loads(s).ok
    /\ json_loads(s).val.kind = "list"
    /\ \A i \in 1..Len(json_loads(s).val.items) : json_loads(s).val.items[i].kind = "str"

\* C11: parse_key_list reads the value as a JSON array exactly when the
\* value with its surrounding whitespace trimmed starts with "[" (a valid
\* JSON array after leading whitespace is read as JSON, any other string is
\* split on commas), and every returned element is trimmed and non-empty.
C11_JsonBranchOnTrimmedBracket ==
    klDone /\ klInput.how \in {"raw", "dumps"}
        => /\ ~klResult.raised
           /\ (At(Strip(klValue.s), 1) = "[" /\ IsJsonStringArray(Strip(klValue.s)))
                 => klResult.val = JsonFields(Strip(klValue.s))
           /\ At(Strip(klValue.s), 1) # "[" => klResult.val = CommaFields(klValue)
           /\ \A i \in 1..Len(klResult.val) :
                 klResult.val[i] # EmptyStr /\ Strip(klResult.val[i]) = klResult.val[i]

(***************************************************************************)
(* More claims about the grid (specification SpecGrid)                     *)
(***************************************************************************)
\* the grid as schema_to_dataframe returned it
gBuilt == gPc = "grid" /\ gUnedited

\* the metadata.<key> columns of the grid, in the order of the grid
gMetaColumns == SelectSeq(gGrid.columns, IsMetaCol)

\* the metadata keys of all fields but the four reserved ones
UnionOfKeys ==
    UNION {IF IsDict(gFields[i]) THEN MetaKeys(gFields[i]) ELSE {} : i \in 1..Len(gFields)}
        \ ReservedKeys

\* the value the claim puts into the cell of a field under a key
OwnValueOrEmpty(f, k) ==
    IF k \in MetaKeys(f) THEN MetadataOf(f).d[k] ELSE PyStr(EmptyStr)

\* C15: for a non-empty F the metadata.<key> columns of the grid are those
\* of the union of the fields' metadata keys without the four reserved keys,
\* in lexicographic order of the keys, and the row of every field holds in
\* each of them the field's own value, or "" when the field lacks the key.
C15_MetadataColumns ==
    gBuilt
        => /\ SeqRange(gMetaColumns) = {MetaCol(k) : k \in UnionOfKeys}
           /\ \A i, j \in 1..Len(gMetaColumns) :
                 i < j => StrLess(Tail(gMetaColumns[i]), Tail(gMetaColumns[j]))
           /\ Len(gGrid.rows) = Len(SelectDicts(gFields))
           /\ \A i \in 1..Len(gGrid.rows) : \A k \in UnionOfKeys :
                 /\ MetaCol(k) \in DOMAIN gGrid.rows[i]
                 /\ gGrid.rows[i][MetaCol(k)] = OwnValueOrEmpty(SelectDicts(gFields)[i], k)

\* the is_primary_key of the output field of row i, None when it has none
FlagOf(i) == DictGet(MetadataOf(OutFields[i]), K_is_primary_key, PyNone)

\* the Is Primary Key cell of row i
PkCell(i) == gGrid.rows[i][ColPK]

\* no two rows of the grid have the same Target Name
DistinctTargets ==
    \A i, j \in 1..Len(gGrid.rows) :
        i # j => gGrid.rows[i][ColTarget] # gGrid.rows[j][ColTarget]

NullableCell(i) == gGrid.rows[i][ColNullable]
NullableOut(i) == OutFields[i].d[K_nullable]

\* the spellings of "true" that the cells of the model take
EqualsTrueIgnoringCase(s) == s \in {<<"true">>, <<"True">>, <<"TRUE">>}

\* C17 as stated: nullable is a boolean; a native boolean is kept, a string
\* gives true exactly when it equals "true" whatever its case, and every
\* other value gives false.
C17_OtherValuesGiveFalse ==
    gConverted
        => \A i \in 1..Len(gGrid.rows) :
              /\ NullableOut(i).kind = "bool"
              /\ NullableCell(i).kind = "bool" => NullableOut(i) = NullableCell(i)
              /\ NullableCell(i).kind = "str"
                    => (NullableOut(i).b <=> EqualsTrueIgnoringCase(NullableCell(i).s))
              /\ NullableCell(i).kind \notin {"bool", "str"} => NullableOut(i) = PyBool(FALSE)

\* C17, amended: a value that is neither a boolean nor a string gives its
\* truthiness: false for None and 0, true for other numbers and for NaN.
C17_OtherValuesGiveTruthiness ==
    gConverted
        => \A i \in 1..Len(gGrid.rows) :
              /\ NullableOut(i).kind = "bool"
              /\ NullableCell(i).kind = "bool" => NullableOut(i) = NullableCell(i)
              /\ NullableCell(i).kind = "str"
                    => (NullableOut(i).b <=> EqualsTrueIgnoringCase(NullableCell(i).s))
              /\ NullableCell(i).kind \notin {"bool", "str"}
                    => (NullableOut(i).b
                          <=> \/ NullableCell(i).kind = "nan"
                              \/ NullableCell(i).kind = "int" /\ NullableCell(i).n # 0)

\* a number, a string in capitals and a null were converted
C17_Witness ==
    /\ gConverted
    /\ \E i \in 1..Len(gGrid.rows) :
          \/ NullableCell(i) = PyInt(1) /\ NullableOut(i) = PyBool(TRUE)
          \/ NullableCell(i) = PyNaN /\ NullableOut(i) = PyBool(TRUE)
    /\ \E i \in 1..Len(gGrid.rows) :
          NullableCell(i) \in {PyNone, PyInt(0), Word("yes")} /\ NullableOut(i) = PyBool(FALSE)

\* the metadata.<key> cell sets a value
CellSetsValue(cell) ==
    \/ cell.kind \in {"bool", "int"}
    \/ cell.kind = "str" /\ cell.s # EmptyStr

\* the metadata of the output field of a row has under k what the matched
\* original field has, and nothing when no original field is matched
KeptFromOriginal(row, out, k) ==
    IF Matched(row) /\ k \in MetaKeys(LastMatch(row))
    THEN k \in MetaKeys(out) /\ MetadataOf(out).d[k] = MetadataOf(LastMatch(row)).d[k]
    ELSE k \notin MetaKeys(out)

\* C18: for every column metadata.<key> of the grid, a cell that is a
\* boolean, a number or a non-empty string sets metadata[key] of the output
\* field to that value; an empty-string or null cell sets nothing, and the
\* output field has under key what the matched original field had.
C18_MetadataCellsSetTheirKey ==
    gConverted
        => \A i \in 1..Len(gGrid.rows) : \A c \in SeqRange(gMetaColumns) :
              /\ CellSetsValue(gGrid.rows[i][c])
                    => /\ Tail(c) \in MetaKeys(OutFields[i])
                       /\ MetadataOf(OutFields[i]).d[Tail(c)] = gGrid.rows[i][c]
              /\ CellEmpty(gGrid.rows[i][c])
                    => KeptFromOriginal(gGrid.rows[i], OutFields[i], Tail(c))

(***************************************************************************)
(* More claims about the page (specification Spec)                         *)
(***************************************************************************)
\* a step in which a save handler called the update functions
pUpdated == dbCalls' # dbCalls

FreshConfig(row) == load_config(row).tc
FreshGrid(row) == BaseColumnsOf(get_schema_dataframe(FreshConfig(row)))

\* C14: a save whose DataSchema update succeeded ends in a rerun that drops
\* the edited grid, and every run that shows the editor shows the grid of a
\* TableConfig built in that run from the row as the warehouse holds it.
C14_ReloadAfterSuccessfulSave ==
    [][/\ (pUpdated /\ pSaved'.schema_updated) => (pView' = "run" /\ pGrid' = NoGrid)
       /\ (pView = "run" /\ pView' = "editor")
            => (tc' = FreshConfig(dbRow') /\ pGrid' = FreshGrid(dbRow'))]_vars

C14_Witness ==
    /\ pView = "editor" /\ pEdits > 0
    /\ pSaved.saved /\ pSaved.schema_updated
    /\ pGrid = FreshGrid(dbRow)

pReloadedAfterPlainSave ==
    /\ pView \in {"no_schema", "raw", "editor"}
    /\ pEdits = 0
    /\ pSaved.saved /\ pSaved.schema_updated /\ pSaved.config_updated

\* C20: a save without edits changes nothing: the row loaded after it
\* parses to the field sequence and the three key lists of the first load,
\* however often the cycle is repeated.
C20_PlainSaveChangesNothing ==
    pReloadedAfterPlainSave
        => /\ tc.dataschema = pFirstLoad.dataschema
           /\ tc.primary_keys = pFirstLoad.primary_keys
           /\ tc.scd_join_keys = pFirstLoad.scd_join_keys
           /\ tc.scd_sequence_keys = pFirstLoad.scd_sequence_keys

(***************************************************************************)
(* Claims about overlapping saves (specification SpecSessions)             *)
(***************************************************************************)
\* both sessions have issued both of their UPDATE statements
sDone == \A s \in Sessions : sess[s].pc = "done"

\* every UPDATE statement of every session succeeded
sAllUpdated == \A s \in Sessions : sess[s].schema_updated /\ sess[s].config_updated

\* the DataSchema text and the key columns that a session's save sends
SchemaWritten(s) == PyStr(json_dumps(sess[s].out.schema))
KeysWritten(s) == config_updates(sess[s].out)
RowKeys(row) ==
    [PrimaryKeys |-> row.d[C_PrimaryKeys],
     ScdJoinKeys |-> row.d[C_ScdJoinKeys],
     ScdSequenceKeys |-> row.d[C_ScdSequenceKeys]]

\* C13 as stated: after two overlapping saves whose statements all
\* succeeded, the row (DataSchema and the three key columns) is entirely
\* the output of the session whose statement ran last.
C13_FinalRowFromLastWriter ==
    (sDone /\ sAllUpdated)
        => \A s \in Sessions :
              sLast.any = s => /\ sRow.d[C_DataSchema] = SchemaWritten(s)
                               /\ RowKeys(sRow) = KeysWritten(s)

\* C13, amended: last write wins per UPDATE statement. DataSchema is the
\* output of the session whose update_DataSchema succeeded last, and the
\* three key columns together are the output of the session whose
\* update_table_config succeeded last; these may be different sessions.
C13_EachColumnGroupFromItsLastWriter ==
    \A s \in Sessions :
        /\ sLast.schema = s => sRow.d[C_DataSchema] = SchemaWritten(s)
        /\ sLast.keys = s => RowKeys(sRow) = KeysWritten(s)

C13_Witness ==
    /\ sDone /\ sAllUpdated
    /\ sLast.schema # sLast.keys
    /\ SchemaWritten(1) # SchemaWritten(2)
    /\ KeysWritten(1) # KeysWritten(2)

(***************************************************************************)
(* Claims about what a failed save leaves behind (specification Spec)      *)
(***************************************************************************)
\* C21: when update_DataSchema fails in Save Schema Changes, and the
\* operator is shown "Failed to update schema", that save has changed none
\* of the columns PrimaryKeys, ScdJoinKeys and ScdSequenceKeys.
C21_FailedSchemaSaveLeavesKeys ==
    [][(pView = "editor" /\ pUpdated /\ ~pSaved'.schema_updated /\ pMsg' = "error")
          => RowKeys(dbRow') = RowKeys(dbRow)]_vars

(***************************************************************************)
(* Claims about the arguments of dataframe_to_schema (specification        *)
(* SpecGrid)                                                               *)
(***************************************************************************)
\* C22: dataframe_to_schema leaves its original_schema_fields argument as
\* it was: after the call every original field, its metadata included, is
\* equal to what it was before the call.
C22_OriginalFieldsUntouched ==
    [][(gPc = "grid" /\ gPc' = "done") => gFields' = gFields]_vars

\* a row of an edited grid was copied from an original field and came out
\* different from it
C22_Witness ==
    /\ gConverted /\ gEdits > 0
    /\ \E i \in 1..Len(gGrid.rows) :
          /\ Matched(gGrid.rows[i])
          /\ OutFields[i] # LastMatch(gGrid.rows[i])

(***************************************************************************)
(* Claims about the table list page (specification SpecList)               *)
(***************************************************************************)
\* the number of rows of filtered_df.iloc[start:end] for n rows
IlocBound(k, n) == IF k < 0 THEN (IF n + k < 0 THEN 0 ELSE n + k) ELSE (IF k > n THEN n ELSE k)
SliceRows(start, end, n) ==
    IF IlocBound(end, n) > IlocBound(start, n) THEN IlocBound(end, n) - IlocBound(start, n)
    ELSE 0

\* C23: whenever a page of rows is rendered, 0 <= current_page < total_pages
\* with total_pages = ceil(matching rows / 10), the slice is inside the rows
\* and not empty; and a run that saw changed filter inputs renders page 0.
C23_PageInRange ==
    shown.rows
        => /\ 0 <= shown.page /\ shown.page < shown.total_pages
           /\ (shown.total_pages - 1) * 10 < shown.total_rows
           /\ shown.total_rows <= shown.total_pages * 10
           /\ 0 <= shown.start_idx /\ shown.end_idx <= shown.total_rows
           /\ SliceRows(shown.start_idx, shown.end_idx, shown.total_rows) > 0
           /\ shown.reset => shown.page = 0

(***************************************************************************)
(* Claims about TableConfig.refresh (specification SpecRefresh)            *)
(***************************************************************************)
\* C24: a TableConfig that exists and is not loaded has empty primary_keys,
\* scd_join_keys, scd_sequence_keys and schema_fields and an empty
\* dataschema_str.
C24_NotLoadedIsEmpty ==
    (rc # NoObject /\ ~is_loaded(rc))
        => /\ rc.primary_keys = <<>>
           /\ rc.scd_join_keys = <<>>
           /\ rc.scd_sequence_keys = <<>>
           /\ schema_fields(rc) = PyList(<<>>)
           /\ rc.dataschema_str = PyStr(EmptyStr)

====
